---------------------------- MODULE Spec2Model ----------------------------
(***************************************************************************)
(* Model of the IPP value / attribute / attribute-list codec of ipp.rs     *)
(* (ipp/src/value.rs, ipp/src/attribute.rs).                               *)
(*                                                                         *)
(* Bytes are naturals 0..255, byte strings and Rust Strings are sequences  *)
(* of bytes (a String is its UTF-8 encoding).  A fallible Rust call        *)
(* returns a record whose field res is "Ok", "Err" or "Panic".             *)
(***************************************************************************)
EXTENDS Integers, Sequences, FiniteSets, TLC

VARIABLES
    val,      \* value layer: the IppValue under test
    vbytes,   \* value layer: IppValue::to_bytes(val), or <<>> before the call
    vres,     \* value layer: result of IppValue::parse, or NoResult
    vpc,      \* value layer: "built" -> "encoded" -> "parsed" -> "reencoded"
    vagain,   \* value layer: the parsed value serialized again as an attribute
    theAttr,  \* attribute layer: the IppAttribute under test
    abytes,   \* attribute layer: IppAttribute::to_bytes(theAttr)
    ares,     \* attribute layer: result of parsing abytes in a group envelope
    apc,      \* attribute layer: "built" -> "encoded" -> "parsed"
    attrs,    \* list layer: the IppAttributes being built, the sequence of its groups
    nops,     \* list layer: number of add / push calls made
    msg,      \* list layer: header and payload of the message sent
    wire,     \* list layer: the serialized message
    lres,     \* list layer: result of parsing wire
    lpc,      \* list layer: "build" -> "sent" -> "parsed"
    call,     \* list layer: the latest call made on the list, with its arguments
    latest,   \* list layer: for <<tag, name>>, the value of the latest add(tag, name = value)
    bsMax,    \* string layer: the MAX of the BoundedString type
    bsIn,     \* string layer: the input string
    bsRes,    \* string layer: result of the conversion
    bpc,      \* string layer: "input" -> "done"
    itValue,  \* iterator layer: the IppValue iterated over
    itIndex,  \* iterator layer: the index field of the IppValueIterator
    itOut,    \* iterator layer: what the calls of next returned, in order
    ptag,     \* parse layer: the value_tag given to IppValue::parse
    pdata,    \* parse layer: the payload given to IppValue::parse
    pres,     \* parse layer: outcome of the call, or NoResult
    ppc,      \* parse layer: "input" -> "done"
    stream,   \* stream layer: the bytes given to the parser
    sres,     \* stream layer: outcome of the parse, or NoResult
    spc,      \* stream layer: "input" -> "parsed"
    inserted, \* collection layer: the member names inserted, in order
    coll,     \* collection layer: the BTreeMap of the Collection being built
    cbytes,   \* collection layer: to_bytes() of the Collection, or <<>>
    cpc       \* collection layer: "build" -> "encoded"

varsValue == <<val, vbytes, vres, vpc, vagain>>
varsAttr == <<theAttr, abytes, ares, apc>>
varsList == <<attrs, nops, msg, wire, lres, lpc, call, latest>>
varsString == <<bsMax, bsIn, bsRes, bpc>>

varsIter == <<itValue, itIndex, itOut>>
varsParse == <<ptag, pdata, pres, ppc>>
varsStream == <<stream, sres, spc>>
varsColl == <<inserted, coll, cbytes, cpc>>

vars ==
    <<varsValue, varsAttr, varsList, varsString, varsIter, varsParse, varsStream, varsColl>>

NoResult == [res |-> "None"]

-----------------------------------------------------------------------------
(* Byte-level helpers: the bytes crate's put_* / get_* in big-endian order *)

Pow2_8 == 2^8
Pow2_16 == 2^16
Pow2_24 == 2^24

\* i32::MIN and i32::MAX
I32_MIN == (-(2^30)) - 2^30
I32_MAX == (2^30 - 1) + 2^30

\* BufMut::put_u16(n as u16)
put_u16(n) == << (n % Pow2_16) \div Pow2_8, n % Pow2_8 >>

\* BufMut::put_i32(i) / put_u32: two's complement, big-endian
put_i32(i) ==
    << (i \div Pow2_24) % Pow2_8, (i \div Pow2_16) % Pow2_8, (i \div Pow2_8) % Pow2_8,
       i % Pow2_8 >>

\* Buf::get_u16 on the first two bytes of b (caller checks Len(b) >= 2)
get_u16(b) == b[1] * Pow2_8 + b[2]

\* Buf::get_i8 on byte b
get_i8(b) == IF b >= 128 THEN b - Pow2_8 ELSE b

\* Buf::get_i32 on the first four bytes of b (caller checks Len(b) >= 4)
get_i32(b) == get_i8(b[1]) * Pow2_24 + b[2] * Pow2_16 + b[3] * Pow2_8 + b[4]

\* `x as u8` for an integer or char x
as_u8(x) == x % Pow2_8

\* the bytes of b after the first n
Drop(b, n) == SubSeq(b, n + 1, Len(b))

\* the first n bytes of b
Take(b, n) == SubSeq(b, 1, n)

\* a string of n copies of byte c
Rep(c, n) == [i \in 1..n |-> c]

-----------------------------------------------------------------------------
(* String::from_utf8_lossy: every maximal invalid subpart of the input is  *)
(* replaced by U+FFFD (EF BF BD); valid UTF-8 is returned unchanged.       *)

IsCont(x) == x >= 128 /\ x <= 191

\* is y a legal second byte after lead byte x of a 3- or 4-byte sequence
SecondOk(x, y) ==
    CASE x = 224 -> y >= 160 /\ y <= 191
      [] x = 237 -> y >= 128 /\ y <= 159
      [] x = 240 -> y >= 144 /\ y <= 191
      [] x = 244 -> y >= 128 /\ y <= 143
      [] OTHER   -> IsCont(y)

\* <<number of bytes consumed at the head of b, TRUE iff they are valid>>
Utf8Chunk(b) ==
    LET x == b[1]
        n == Len(b)
    IN  IF x < 128 THEN <<1, TRUE>>
        ELSE IF x >= 194 /\ x <= 223 THEN
            IF n >= 2 /\ IsCont(b[2]) THEN <<2, TRUE>> ELSE <<1, FALSE>>
        ELSE IF x >= 224 /\ x <= 239 THEN
            IF ~(n >= 2 /\ SecondOk(x, b[2])) THEN <<1, FALSE>>
            ELSE IF ~(n >= 3 /\ IsCont(b[3])) THEN <<2, FALSE>>
            ELSE <<3, TRUE>>
        ELSE IF x >= 240 /\ x <= 244 THEN
            IF ~(n >= 2 /\ SecondOk(x, b[2])) THEN <<1, FALSE>>
            ELSE IF ~(n >= 3 /\ IsCont(b[3])) THEN <<2, FALSE>>
            ELSE IF ~(n >= 4 /\ IsCont(b[4])) THEN <<3, FALSE>>
            ELSE <<4, TRUE>>
        ELSE <<1, FALSE>>

RECURSIVE LossyRec(_)
LossyRec(b) ==
    IF b = <<>> THEN <<>>
    ELSE LET c == Utf8Chunk(b)
         IN  (IF c[2] THEN Take(b, c[1]) ELSE <<239, 191, 189>>) \o LossyRec(Drop(b, c[1]))

from_utf8_lossy(b) ==
    IF \A i \in DOMAIN b : b[i] < 128 THEN b ELSE LossyRec(b)

-----------------------------------------------------------------------------
(* BoundedString<MAX> and IppTextValue                                     *)

\* the MAX of the type aliases of BoundedString
IppStringMax == 1023
IppShortStringMax == 127
IppKeywordMax == 255
IppMimeMediaTypeMax == 255
IppCharsetMax == 63
IppLanguageMax == 63
IppNameMax == 255

InvalidStringLength(len, max) ==
    [res |-> "Err", err |-> "InvalidStringLength", len |-> len, max |-> max]

\* BoundedString::new with the bound test written `len >= MAX`: the fault the
\* length rule of new detects
BoundedString_new_exclusive(MAX, s) ==
    LET len_usize == Len(s)
    IN  IF len_usize >= Pow2_16 THEN InvalidStringLength(len_usize, MAX)
        ELSE IF len_usize >= MAX THEN InvalidStringLength(len_usize, MAX)
        ELSE [res |-> "Ok", v |-> [max |-> MAX, inner |-> s]]

\* BoundedString::<MAX>::new(s): the value is [max, inner]
BoundedString_new(MAX, s) ==
    LET len_usize == Len(s)
    IN  IF len_usize >= Pow2_16 THEN InvalidStringLength(len_usize, MAX)
        ELSE IF len_usize > MAX THEN InvalidStringLength(len_usize, MAX)
        ELSE [res |-> "Ok", v |-> [max |-> MAX, inner |-> s]]

\* expand without its assertion: the fault the rule of expand detects
BoundedString_expand_unchecked(self, MAX2) ==
    [res |-> "Ok", v |-> [max |-> MAX2, inner |-> self.inner]]

\* BoundedString::<MAX>::expand::<MAX2>(self): assert!(MAX2 >= MAX)
BoundedString_expand(self, MAX2) ==
    IF ~(MAX2 >= self.max) THEN [res |-> "Panic"]
    ELSE [res |-> "Ok", v |-> [max |-> MAX2, inner |-> self.inner]]

\* shrink without its length test: the fault the bound of every BoundedString
\* detects
BoundedString_shrink_unchecked(self, MAX2) ==
    [res |-> "Ok", v |-> [max |-> MAX2, inner |-> self.inner]]

\* BoundedString::<MAX>::shrink::<MAX2>(self)
BoundedString_shrink(self, MAX2) ==
    IF Len(self.inner) > MAX2 THEN InvalidStringLength(Len(self.inner), MAX2)
    ELSE [res |-> "Ok", v |-> [max |-> MAX2, inner |-> self.inner]]

\* BoundedString::<MAX>::from_array(&[u8; CAP]): assert_eq!(MAX as usize, CAP),
\* then String::from_utf8_lossy(value).try_into().unwrap()
BoundedString_from_array(MAX, value) ==
    IF MAX # Len(value) THEN [res |-> "Panic"]
    ELSE IF BoundedString_new(MAX, from_utf8_lossy(value)).res # "Ok" THEN [res |-> "Panic"]
    ELSE BoundedString_new(MAX, from_utf8_lossy(value))

\* IppTextValue::new with the first range written 0..=128: the fault the tier
\* rule detects
IppTextValue_new_wide(s) ==
    LET len == Len(s)
    IN  IF len <= 128 THEN
            IF BoundedString_new(IppShortStringMax, s).res = "Ok"
            THEN [res |-> "Ok", v |-> [tier |-> "Short", s |-> s]]
            ELSE BoundedString_new(IppShortStringMax, s)
        ELSE IF len <= 255 THEN [res |-> "Ok", v |-> [tier |-> "Medium", s |-> s]]
        ELSE IF len <= 1023 THEN [res |-> "Ok", v |-> [tier |-> "Long", s |-> s]]
        ELSE InvalidStringLength(len, 1023)

\* IppTextValue::new(s): the value is [tier, s]
IppTextValue_new(s) ==
    LET len == Len(s)
    IN  IF len <= 127 THEN
            IF BoundedString_new(IppShortStringMax, s).res = "Ok"
            THEN [res |-> "Ok", v |-> [tier |-> "Short", s |-> s]]
            ELSE BoundedString_new(IppShortStringMax, s)
        ELSE IF len <= 255 THEN
            IF BoundedString_new(255, s).res = "Ok"
            THEN [res |-> "Ok", v |-> [tier |-> "Medium", s |-> s]]
            ELSE BoundedString_new(255, s)
        ELSE IF len <= 1023 THEN
            IF BoundedString_new(IppStringMax, s).res = "Ok"
            THEN [res |-> "Ok", v |-> [tier |-> "Long", s |-> s]]
            ELSE BoundedString_new(IppStringMax, s)
        ELSE InvalidStringLength(len, 1023)

\* From<IppShortString>, From<BoundedString<255>>, From<IppString> for
\* IppTextValue: Self::Short(value), Self::Medium(value), Self::Long(value)
IppTextValue_from(value) ==
    [tier |-> CASE value.max = IppShortStringMax -> "Short"
                [] value.max = 255 -> "Medium"
                [] value.max = IppStringMax -> "Long",
     s |-> value.inner]

-----------------------------------------------------------------------------
(* Value tags (model::ValueTag)                                            *)

ValueTag_Unsupported == 16
ValueTag_Unknown == 18
ValueTag_NoValue == 19
ValueTag_Integer == 33
ValueTag_Boolean == 34
ValueTag_Enum == 35
ValueTag_OctetStringUnspecified == 48
ValueTag_DateTime == 49
ValueTag_Resolution == 50
ValueTag_RangeOfInteger == 51
ValueTag_BegCollection == 52
ValueTag_TextWithLanguage == 53
ValueTag_NameWithLanguage == 54
ValueTag_EndCollection == 55
ValueTag_TextWithoutLanguage == 65
ValueTag_NameWithoutLanguage == 66
ValueTag_Keyword == 68
ValueTag_Uri == 69
ValueTag_UriScheme == 70
ValueTag_Charset == 71
ValueTag_NaturalLanguage == 72
ValueTag_MimeMediaType == 73
ValueTag_MemberAttrName == 74

\* ValueTag::from_u8(b) is Some(_) exactly for these bytes
ValueTag_known ==
    { ValueTag_Unsupported, ValueTag_Unknown, ValueTag_NoValue, ValueTag_Integer,
      ValueTag_Boolean, ValueTag_Enum, ValueTag_OctetStringUnspecified,
      ValueTag_DateTime, ValueTag_Resolution, ValueTag_RangeOfInteger,
      ValueTag_BegCollection, ValueTag_TextWithLanguage, ValueTag_NameWithLanguage,
      ValueTag_EndCollection, ValueTag_TextWithoutLanguage,
      ValueTag_NameWithoutLanguage, ValueTag_Keyword, ValueTag_Uri,
      ValueTag_UriScheme, ValueTag_Charset, ValueTag_NaturalLanguage,
      ValueTag_MimeMediaType, ValueTag_MemberAttrName }

-----------------------------------------------------------------------------
(* IppValue: a record with a field kind naming the variant                 *)

\* the string variants holding one BoundedString in field s, with its MAX
StringKindMax ==
    [ NameWithoutLanguage |-> IppNameMax, Keyword |-> IppKeywordMax,
      Charset |-> IppCharsetMax, NaturalLanguage |-> IppLanguageMax,
      Uri |-> IppStringMax, UriScheme |-> IppStringMax,
      MimeMediaType |-> IppMimeMediaTypeMax, MemberAttrName |-> IppKeywordMax ]

StringKinds == DOMAIN StringKindMax

\* the variants holding one IppTextValue in field text
TextKinds == {"OctetString", "TextWithoutLanguage"}

\* IppValue::to_tag
RECURSIVE to_tag(_)
to_tag(v) ==
    CASE v.kind = "Integer" -> ValueTag_Integer
      [] v.kind = "Enum" -> ValueTag_Enum
      [] v.kind = "RangeOfInteger" -> ValueTag_RangeOfInteger
      [] v.kind = "Boolean" -> ValueTag_Boolean
      [] v.kind = "Keyword" -> ValueTag_Keyword
      [] v.kind = "OctetString" -> ValueTag_OctetStringUnspecified
      [] v.kind = "TextWithoutLanguage" -> ValueTag_TextWithoutLanguage
      [] v.kind = "NameWithoutLanguage" -> ValueTag_NameWithoutLanguage
      [] v.kind = "TextWithLanguage" -> ValueTag_TextWithLanguage
      [] v.kind = "NameWithLanguage" -> ValueTag_NameWithLanguage
      [] v.kind = "Charset" -> ValueTag_Charset
      [] v.kind = "NaturalLanguage" -> ValueTag_NaturalLanguage
      [] v.kind = "Uri" -> ValueTag_Uri
      [] v.kind = "UriScheme" -> ValueTag_UriScheme
      [] v.kind = "MimeMediaType" -> ValueTag_MimeMediaType
      [] v.kind = "Array" ->
            IF v.list = <<>> THEN ValueTag_Unknown ELSE to_tag(v.list[1])
      [] v.kind = "Collection" -> ValueTag_BegCollection
      [] v.kind = "DateTime" -> ValueTag_DateTime
      [] v.kind = "MemberAttrName" -> ValueTag_MemberAttrName
      [] v.kind = "Resolution" -> ValueTag_Resolution
      [] v.kind = "Other" -> v.tag
      [] v.kind = "NoValue" -> ValueTag_NoValue

\* a length prefix that counts its own two bytes: the fault the attribute round
\* trip detects
LenPrefixed_inclusive(b) == put_u16(Len(b) + 2) \o b

\* [len u16][bytes], the layout of every string variant and of Other
LenPrefixed(b) == put_u16(Len(b)) \o b

\* lexicographic order on byte strings: Ord for String, the order of BTreeMap keys
RECURSIVE LexLess(_, _)
LexLess(a, b) ==
    IF b = <<>> THEN FALSE
    ELSE IF a = <<>> THEN TRUE
    ELSE IF a[1] # b[1] THEN a[1] < b[1]
    ELSE LexLess(Tail(a), Tail(b))

\* the keys in descending order (iter().rev()): the fault the order of the
\* member names detects
RECURSIVE BTreeKeys_descending(_)
BTreeKeys_descending(ks) ==
    IF ks = {} THEN <<>>
    ELSE LET k == CHOOSE x \in ks : \A y \in ks \ {x} : LexLess(y, x)
         IN  <<k>> \o BTreeKeys_descending(ks \ {k})

\* the keys of a BTreeMap in iteration order
RECURSIVE BTreeKeys(_)
BTreeKeys(ks) ==
    IF ks = {} THEN <<>>
    ELSE LET k == CHOOSE x \in ks : \A y \in ks \ {x} : LexLess(x, y)
         IN  <<k>> \o BTreeKeys(ks \ {k})

\* IppValue::to_bytes
RECURSIVE IppValue_to_bytes(_), ArrayItems(_, _, _), CollectionItems(_, _),
          ArrayItems_trailing(_, _, _), CollectionItems_swapped(_, _)

\* the Array loop with the separator written after every element, the last one
\* included: the fault the record layout of an Array detects
ArrayItems_trailing(list, i, tag) ==
    IF i > Len(list) THEN <<>>
    ELSE IppValue_to_bytes(list[i]) \o <<tag>> \o put_u16(0)
            \o ArrayItems_trailing(list, i + 1, tag)

\* the Collection loop with the value record written before the member name
\* record: the fault the record layout of a Collection detects
CollectionItems_swapped(map, keys) ==
    IF keys = <<>> THEN <<>>
    ELSE LET atr_name == [kind |-> "MemberAttrName", s |-> Head(keys)]
             item == map[Head(keys)]
         IN  <<to_tag(item)>> \o put_u16(0) \o IppValue_to_bytes(item)
                \o <<to_tag(atr_name)>> \o put_u16(0) \o IppValue_to_bytes(atr_name)
                \o CollectionItems_swapped(map, Tail(keys))

IppValue_to_bytes(v) ==
    CASE v.kind \in {"Integer", "Enum"} -> put_u16(4) \o put_i32(v.i)
      [] v.kind = "RangeOfInteger" -> put_u16(8) \o put_i32(v.min) \o put_i32(v.max)
      [] v.kind = "Boolean" -> put_u16(1) \o << IF v.b THEN 1 ELSE 0 >>
      [] v.kind \in StringKinds -> LenPrefixed(v.s)
      [] v.kind \in TextKinds -> LenPrefixed(v.text.s)
      [] v.kind = "TextWithLanguage" ->
            put_u16(Len(v.language) + Len(v.text.s) + 4)
                \o LenPrefixed(v.language) \o LenPrefixed(v.text.s)
      [] v.kind = "NameWithLanguage" ->
            put_u16(Len(v.language) + Len(v.name) + 4)
                \o LenPrefixed(v.language) \o LenPrefixed(v.name)
      [] v.kind = "Array" -> ArrayItems(v.list, 1, to_tag(v))
      [] v.kind = "Collection" ->
            put_u16(0) \o CollectionItems(v.map, BTreeKeys(DOMAIN v.map))
                \o <<ValueTag_EndCollection>> \o put_i32(0)
      [] v.kind = "DateTime" ->
            put_u16(11) \o put_u16(v.year)
                \o << v.month, v.day, v.hour, v.minutes, v.seconds, v.deci_seconds,
                      as_u8(v.utc_dir), v.utc_hours, v.utc_mins >>
      [] v.kind = "Resolution" ->
            put_u16(9) \o put_i32(v.cross_feed) \o put_i32(v.feed) \o <<as_u8(v.units)>>
      [] v.kind = "NoValue" -> put_u16(0)
      [] v.kind = "Other" -> LenPrefixed(v.data)

\* the loop of the Array arm from element i on; tag is self.to_tag()
ArrayItems(list, i, tag) ==
    IF i > Len(list) THEN <<>>
    ELSE IppValue_to_bytes(list[i])
            \o (IF i - 1 < Len(list) - 1 THEN <<tag>> \o put_u16(0) ELSE <<>>)
            \o ArrayItems(list, i + 1, tag)

\* the loop of the Collection arm over the remaining keys
CollectionItems(map, keys) ==
    IF keys = <<>> THEN <<>>
    ELSE LET atr_name == [kind |-> "MemberAttrName", s |-> Head(keys)]
             item == map[Head(keys)]
         IN  <<to_tag(atr_name)>> \o put_u16(0) \o IppValue_to_bytes(atr_name)
                \o <<to_tag(item)>> \o put_u16(0) \o IppValue_to_bytes(item)
                \o CollectionItems(map, Tail(keys))

-----------------------------------------------------------------------------
(* IppValue::parse                                                         *)

Panic == [res |-> "Panic"]
Ok(v) == [res |-> "Ok", v |-> v]

\* the Array loop as a loop whose body runs before its test, so that it runs
\* once on an empty list: the fault the infallibility of to_bytes detects
ArrayLoop_once(list) == 1..(IF list = <<>> THEN 1 ELSE Len(list))

\* the iterations of `for (i, item) in list.iter().enumerate()`, numbered from 1
ArrayLoop(list) == 1..Len(list)

\* the calls of IppValue::to_bytes that panic: `list.len() - 1` is a usize
\* subtraction, evaluated once per iteration of the Array loop, that overflows
\* on an empty list; the puts, the `as` casts and to_tag do not panic
RECURSIVE to_bytes_panics(_)
to_bytes_panics(v) ==
    CASE v.kind = "Array" ->
            \E i \in ArrayLoop(v.list) :
                Len(v.list) - 1 < 0 \/ to_bytes_panics(v.list[i])
      [] v.kind = "Collection" -> \E k \in DOMAIN v.map : to_bytes_panics(v.map[k])
      [] OTHER -> FALSE

\* IppValue::to_bytes as the outcome of the call
IppValue_to_bytes_result(v) ==
    IF to_bytes_panics(v) THEN Panic ELSE Ok(IppValue_to_bytes(v))

\* get_len_string that leaves the buffer at the string instead of after it: the
\* fault the round trip of the language-tagged variants detects
get_len_string_stale(data) ==
    IF Len(data) < 2 THEN Panic
    ELSE LET len == get_u16(data)
             rest == Drop(data, 2)
         IN  IF len > Len(rest) THEN Panic
             ELSE [res |-> "Ok", s |-> from_utf8_lossy(Take(rest, len)), rest |-> rest]

\* get_len_string: Ok with the string and the advanced buffer, or a panic when
\* the buffer holds fewer bytes than the u16 or the length it announces
get_len_string(data) ==
    IF Len(data) < 2 THEN Panic
    ELSE LET len == get_u16(data)
             rest == Drop(data, 2)
         IN  IF len > Len(rest) THEN Panic
             ELSE [res |-> "Ok", s |-> from_utf8_lossy(Take(rest, len)),
                   rest |-> Drop(rest, len)]

\* String::from_utf8_lossy(&data).try_into()? for a BoundedString<MAX> variant
ParseBounded(kind, MAX, data) ==
    LET r == BoundedString_new(MAX, from_utf8_lossy(data))
    IN  IF r.res = "Ok" THEN Ok([kind |-> kind, s |-> r.v.inner]) ELSE r

\* String::from_utf8_lossy(&data).try_into()? for an IppTextValue variant
ParseText(kind, data) ==
    LET r == IppTextValue_new(from_utf8_lossy(data))
    IN  IF r.res = "Ok" THEN Ok([kind |-> kind, text |-> r.v]) ELSE r

\* the TextWithLanguage / NameWithLanguage arms
ParseWithLanguage(kind, data) ==
    LET l == get_len_string(data)
    IN  IF l.res # "Ok" THEN Panic
        ELSE LET language == BoundedString_new(IppLanguageMax, l.s)
             IN  IF language.res # "Ok" THEN language
                 ELSE LET t == get_len_string(l.rest)
                      IN  IF t.res # "Ok" THEN Panic
                          ELSE IF kind = "TextWithLanguage"
                          THEN LET text == IppTextValue_new(t.s)
                               IN  IF text.res # "Ok" THEN text
                                   ELSE Ok([kind |-> kind, language |-> language.v.inner,
                                            text |-> text.v])
                          ELSE LET name == BoundedString_new(IppNameMax, t.s)
                               IN  IF name.res # "Ok" THEN name
                                   ELSE Ok([kind |-> kind, language |-> language.v.inner,
                                            name |-> name.v.inner])

\* parse that files every value under the tag Unknown (0x12): the fault the
\* identity on unrecognized records detects
IppValue_parse_unknown(value_tag, data) ==
    Ok([kind |-> "Other", tag |-> ValueTag_Unknown, data |-> data])

IppValue_parse(value_tag, data) ==
    IF value_tag \notin ValueTag_known
    THEN Ok([kind |-> "Other", tag |-> value_tag, data |-> data])
    ELSE CASE value_tag = ValueTag_Integer ->
                IF Len(data) < 4 THEN Panic ELSE Ok([kind |-> "Integer", i |-> get_i32(data)])
           [] value_tag = ValueTag_Enum ->
                IF Len(data) < 4 THEN Panic ELSE Ok([kind |-> "Enum", i |-> get_i32(data)])
           [] value_tag = ValueTag_OctetStringUnspecified -> ParseText("OctetString", data)
           [] value_tag = ValueTag_TextWithoutLanguage -> ParseText("TextWithoutLanguage", data)
           [] value_tag = ValueTag_NameWithoutLanguage ->
                ParseBounded("NameWithoutLanguage", IppNameMax, data)
           [] value_tag = ValueTag_TextWithLanguage -> ParseWithLanguage("TextWithLanguage", data)
           [] value_tag = ValueTag_NameWithLanguage -> ParseWithLanguage("NameWithLanguage", data)
           [] value_tag = ValueTag_Charset -> ParseBounded("Charset", IppCharsetMax, data)
           [] value_tag = ValueTag_NaturalLanguage ->
                ParseBounded("NaturalLanguage", IppLanguageMax, data)
           [] value_tag = ValueTag_Uri -> ParseBounded("Uri", IppStringMax, data)
           [] value_tag = ValueTag_UriScheme -> ParseBounded("UriScheme", IppStringMax, data)
           [] value_tag = ValueTag_RangeOfInteger ->
                IF Len(data) < 8 THEN Panic
                ELSE Ok([kind |-> "RangeOfInteger", min |-> get_i32(data),
                         max |-> get_i32(Drop(data, 4))])
           [] value_tag = ValueTag_Boolean ->
                IF Len(data) < 1 THEN Panic ELSE Ok([kind |-> "Boolean", b |-> data[1] # 0])
           [] value_tag = ValueTag_Keyword -> ParseBounded("Keyword", IppKeywordMax, data)
           [] value_tag = ValueTag_MimeMediaType ->
                ParseBounded("MimeMediaType", IppMimeMediaTypeMax, data)
           [] value_tag = ValueTag_DateTime ->
                IF Len(data) < 11 THEN Panic
                ELSE Ok([kind |-> "DateTime", year |-> get_u16(data), month |-> data[3],
                         day |-> data[4], hour |-> data[5], minutes |-> data[6],
                         seconds |-> data[7], deci_seconds |-> data[8], utc_dir |-> data[9],
                         utc_hours |-> data[10], utc_mins |-> data[11]])
           [] value_tag = ValueTag_MemberAttrName ->
                ParseBounded("MemberAttrName", IppKeywordMax, data)
           [] value_tag = ValueTag_Resolution ->
                IF Len(data) < 9 THEN Panic
                ELSE Ok([kind |-> "Resolution", cross_feed |-> get_i32(data),
                         feed |-> get_i32(Drop(data, 4)), units |-> get_i8(data[9])])
           [] value_tag = ValueTag_NoValue -> Ok([kind |-> "NoValue"])
           [] OTHER -> Ok([kind |-> "Other", tag |-> value_tag, data |-> data])

-----------------------------------------------------------------------------
(* IppValueIterator: next returns [index, item], the index field after the *)
(* call and the Option it returns                                          *)

None == [some |-> FALSE]
Some(v) == [some |-> TRUE, v |-> v]

\* next whose last arm does not look at the index: the fault the end of the
\* iteration detects
IppValueIterator_next_again(value, index) ==
    CASE value.kind = "Array" ->
            IF index < Len(value.list)
            THEN [index |-> index + 1, item |-> Some(value.list[index + 1])]
            ELSE [index |-> index, item |-> None]
      [] value.kind = "Collection" ->
            IF index < Len(BTreeKeys(DOMAIN value.map))
            THEN [index |-> index + 1,
                  item |-> Some(value.map[BTreeKeys(DOMAIN value.map)[index + 1]])]
            ELSE [index |-> index, item |-> None]
      [] OTHER -> [index |-> index + 1, item |-> Some(value)]

\* IppValueIterator::next; array[self.index - 1] after self.index += 1 is the
\* element at the old index counted from 0, list[index + 1] counted from 1
IppValueIterator_next(value, index) ==
    CASE value.kind = "Array" ->
            IF index < Len(value.list)
            THEN [index |-> index + 1, item |-> Some(value.list[index + 1])]
            ELSE [index |-> index, item |-> None]
      [] value.kind = "Collection" ->
            IF index < Len(BTreeKeys(DOMAIN value.map))
            THEN [index |-> index + 1,
                  item |-> Some(value.map[BTreeKeys(DOMAIN value.map)[index + 1]])]
            ELSE [index |-> index, item |-> None]
      [] OTHER ->
            IF index = 0 THEN [index |-> index + 1, item |-> Some(value)]
            ELSE [index |-> index, item |-> None]

-----------------------------------------------------------------------------
(* IppAttribute, IppAttributeGroup, IppAttributes                          *)
(* An attribute is [name, value]; a group is [tag, attributes] with        *)
(* attributes a function from names to values (the HashMap, each attribute *)
(* stored under its own name); a list is the sequence of its groups.       *)

DelimiterTag_OperationAttributes == 1
DelimiterTag_JobAttributes == 2
DelimiterTag_EndOfAttributes == 3
DelimiterTag_PrinterAttributes == 4

ATTRIBUTES_CHARSET ==
    <<97, 116, 116, 114, 105, 98, 117, 116, 101, 115, 45, 99, 104, 97, 114, 115, 101, 116>>
ATTRIBUTES_NATURAL_LANGUAGE ==
    <<97, 116, 116, 114, 105, 98, 117, 116, 101, 115, 45, 110, 97, 116, 117, 114, 97, 108,
      45, 108, 97, 110, 103, 117, 97, 103, 101>>
PRINTER_URI == <<112, 114, 105, 110, 116, 101, 114, 45, 117, 114, 105>>
COPIES == <<99, 111, 112, 105, 101, 115>>

\* HEADER_ATTRS with the first two names exchanged: the fault the order of the
\* header attributes detects
HEADER_ATTRS_swapped == <<ATTRIBUTES_NATURAL_LANGUAGE, ATTRIBUTES_CHARSET, PRINTER_URI>>

HEADER_ATTRS == <<ATTRIBUTES_CHARSET, ATTRIBUTES_NATURAL_LANGUAGE, PRINTER_URI>>

is_header_attr(attr) == \E i \in DOMAIN HEADER_ATTRS : HEADER_ATTRS[i] = attr

\* IppAttribute::to_bytes with the name length written as one byte: the fault the
\* attribute layout detects
IppAttribute_to_bytes_u8(a) ==
    <<to_tag(a.value)>> \o <<Len(a.name) % Pow2_8>> \o a.name \o IppValue_to_bytes(a.value)

\* IppAttribute::to_bytes
IppAttribute_to_bytes(a) ==
    <<to_tag(a.value)>> \o put_u16(Len(a.name)) \o a.name \o IppValue_to_bytes(a.value)

\* an insert that keeps the value a present key has (entry(k).or_insert(v)): the
\* fault the replacement rule of add detects
MapInsert_keep(m, k, v) == [x \in DOMAIN m \cup {k} |-> IF x \in DOMAIN m THEN m[x] ELSE v]

\* IppAttribute::to_bytes as the outcome of the call: Ok unless the value's
\* to_bytes panics; no Err is ever built
IppAttribute_to_bytes_result(a) ==
    IF to_bytes_panics(a.value) THEN Panic ELSE Ok(IppAttribute_to_bytes(a))

\* HashMap::insert(name, value)
MapInsert(m, k, v) == [x \in DOMAIN m \cup {k} |-> IF x = k THEN v ELSE m[x]]

EmptyMap == <<>>

\* a group constructor that ignores its argument and tags every group
\* OperationAttributes: the fault the grouping of the parsed records detects
IppAttributeGroup_new_operation(tag) ==
    [tag |-> DelimiterTag_OperationAttributes, attributes |-> EmptyMap]

\* IppAttributeGroup::new
IppAttributeGroup_new(tag) == [tag |-> tag, attributes |-> EmptyMap]

\* add that looks for the group from the end of the list (rfind): the fault the
\* frame of add detects
IppAttributes_add_last(groups, tag, attribute) ==
    IF \E g \in DOMAIN groups : groups[g].tag = tag
    THEN LET g == CHOOSE x \in DOMAIN groups :
                    groups[x].tag = tag /\ \A y \in (x + 1)..Len(groups) : groups[y].tag # tag
         IN  [groups EXCEPT ![g].attributes = MapInsert(@, attribute.name, attribute.value)]
    ELSE Append(groups,
                [IppAttributeGroup_new(tag) EXCEPT
                    !.attributes = MapInsert(@, attribute.name, attribute.value)])

\* IppAttributes::add
IppAttributes_add(groups, tag, attribute) ==
    IF \E g \in DOMAIN groups : groups[g].tag = tag
    THEN LET g == CHOOSE x \in DOMAIN groups :
                    groups[x].tag = tag /\ \A y \in 1..(x - 1) : groups[y].tag # tag
         IN  [groups EXCEPT ![g].attributes = MapInsert(@, attribute.name, attribute.value)]
    ELSE Append(groups,
                [IppAttributeGroup_new(tag) EXCEPT
                    !.attributes = MapInsert(@, attribute.name, attribute.value)])

\* the orders in which HashMap::values() may yield the attributes of map m
RECURSIVE IterationOrders(_)
IterationOrders(ks) ==
    IF ks = {} THEN {<<>>}
    ELSE UNION { { <<k>> \o rest : rest \in IterationOrders(ks \ {k}) } : k \in ks }

\* the bytes of the attributes of map m named by the sequence names, in that order
RECURSIVE AttrsBytes(_, _)
AttrsBytes(m, names) ==
    IF names = <<>> THEN <<>>
    ELSE IppAttribute_to_bytes([name |-> Head(names), value |-> m[Head(names)]])
            \o AttrsBytes(m, Tail(names))

\* the first loop of IppAttributes::to_bytes: the header attributes the group has
HeaderNames(group) == SelectSeq(HEADER_ATTRS, LAMBDA n : n \in DOMAIN group.attributes)

\* the second loop without its test, so that it writes every attribute of the
\* group in the map's order, the header attributes a second time: the fault the
\* independence of the output from the map's order detects
OtherNames_unfiltered(order) == order

\* the second loop with its test inverted, so that it writes the header
\* attributes again and leaves out the others: the fault the message round trip
\* detects
OtherNames_inverted(order) == SelectSeq(order, LAMBDA n : is_header_attr(n))

\* the second loop: the other operation attributes, in the map's order
OtherNames(order) == SelectSeq(order, LAMBDA n : ~is_header_attr(n))

\* groups_of(OperationAttributes): the indices of those groups, in list order
OperationGroups(groups) ==
    SelectSeq([i \in 1..Len(groups) |-> i],
              LAMBDA i : groups[i].tag = DelimiterTag_OperationAttributes)

\* the third loop without its filter, so that it runs over every group: the
\* fault the sequence of delimiters detects
RestGroups_unfiltered(groups) == [i \in 1..Len(groups) |-> i]

\* the filter of the third loop: the indices of all other groups, in list order
RestGroups(groups) ==
    SelectSeq([i \in 1..Len(groups) |-> i],
              LAMBDA i : groups[i].tag # DelimiterTag_OperationAttributes)

\* the third loop: every group that is not OperationAttributes
RECURSIVE RestBytes(_, _, _)
RestBytes(groups, idx, order) ==
    IF idx = <<>> THEN <<>>
    ELSE LET g == Head(idx)
         IN  <<groups[g].tag>> \o AttrsBytes(groups[g].attributes, order[g])
                \o RestBytes(groups, Tail(idx), order)

\* IppAttributes::to_bytes that writes the OperationAttributes delimiter only
\* when the list has such a group: the fault the bytes of the empty list detect
IppAttributes_to_bytes_lazy(groups, order) ==
    LET ops == OperationGroups(groups)
    IN  (IF ops # <<>>
         THEN LET group == groups[Head(ops)]
              IN  <<DelimiterTag_OperationAttributes>>
                     \o AttrsBytes(group.attributes, HeaderNames(group))
                     \o AttrsBytes(group.attributes, OtherNames(order[Head(ops)]))
         ELSE <<>>)
        \o RestBytes(groups, RestGroups(groups), order)
        \o <<DelimiterTag_EndOfAttributes>>

\* IppAttributes::to_bytes; order[g] is the order in which the HashMap of group g
\* yields its attributes
IppAttributes_to_bytes(groups, order) ==
    LET ops == OperationGroups(groups)
    IN  <<DelimiterTag_OperationAttributes>>
        \o (IF ops # <<>>
            THEN LET group == groups[Head(ops)]
                 IN  AttrsBytes(group.attributes, HeaderNames(group))
                        \o AttrsBytes(group.attributes, OtherNames(order[Head(ops)]))
            ELSE <<>>)
        \o RestBytes(groups, RestGroups(groups), order)
        \o <<DelimiterTag_EndOfAttributes>>

\* IppAttributes::to_bytes as the outcome of the call: every attr.to_bytes()?
\* of the first OperationAttributes group and of the other groups
IppAttributes_to_bytes_result(groups, order) ==
    IF \E g \in DOMAIN groups :
          /\ groups[g].tag = DelimiterTag_OperationAttributes
                => g = Head(OperationGroups(groups))
          /\ \E n \in DOMAIN groups[g].attributes :
                IppAttribute_to_bytes_result(
                    [name |-> n, value |-> groups[g].attributes[n]]).res # "Ok"
    THEN Panic
    ELSE Ok(IppAttributes_to_bytes(groups, order))

-----------------------------------------------------------------------------
(* The message codec (request.rs, parser.rs, reader.rs), from its          *)
(* specification: header, group stream, payload.                           *)

Err(e) == [res |-> "Err", err |-> e]

\* the 8-byte header; a request id is held as the i32 with the same 32 bits
IppHeader_to_bytes(h) ==
    <<h.major, h.minor>> \o put_u16(h.op) \o put_i32(h.request_id)

\* emission: header, attribute list, payload bytes verbatim
IppRequestResponse_to_bytes(h, groups, order, payload) ==
    IppHeader_to_bytes(h) \o IppAttributes_to_bytes(groups, order) \o payload

\* one record [tag u8][name_len u16][name][value_len u16][value] at the head of b
RecordAt(b, name_len, value_len) ==
    IF Len(b) < 5 + name_len + value_len THEN Err("Truncated")
    ELSE [res |-> "Ok", tag |-> b[1],
          name |-> SubSeq(b, 4, 3 + name_len),
          value |-> SubSeq(b, 6 + name_len, 5 + name_len + value_len),
          rest |-> Drop(b, 5 + name_len + value_len)]

ReadValueLen(b, name_len) ==
    IF Len(b) < 3 + name_len + 2 THEN Err("Truncated")
    ELSE RecordAt(b, name_len, get_u16(Drop(b, 3 + name_len)))

ReadRecord(b) ==
    IF Len(b) < 3 THEN Err("Truncated") ELSE ReadValueLen(b, get_u16(Drop(b, 1)))

\* a parsed value together with the stream that follows its record
WithRest(pv, rest) ==
    IF pv.res # "Ok" THEN pv ELSE [res |-> "Ok", v |-> pv.v, rest |-> rest]

\* the collection submode, entered after a BegCollection record: b is the rest of
\* the stream, map the members read so far; yields the Collection and the stream
\* after its EndCollection record
RECURSIVE ParseCollection(_, _), CollectionRecord(_, _), CollectionMember(_, _, _),
          CollectionInsert(_, _, _)
ParseCollection(b, map) == CollectionRecord(ReadRecord(b), map)

\* rec is the record at the head of the stream: EndCollection or a member's name
CollectionRecord(rec, map) ==
    IF rec.res # "Ok" THEN Err("UnterminatedCollection")
    ELSE IF rec.tag = ValueTag_EndCollection
    THEN [res |-> "Ok", v |-> [kind |-> "Collection", map |-> map], rest |-> rec.rest]
    ELSE IF rec.tag # ValueTag_MemberAttrName \/ rec.name # <<>>
    THEN Err("InvalidTag")
    ELSE CollectionMember(BoundedString_new(IppNameMax, from_utf8_lossy(rec.value)),
                          ReadRecord(rec.rest), map)

\* vrec is the record that carries the value of member mname
CollectionMember(mname, vrec, map) ==
    IF mname.res # "Ok" THEN mname
    ELSE IF vrec.res # "Ok" THEN Err("UnterminatedCollection")
    ELSE IF vrec.name # <<>> THEN Err("InvalidTag")
    ELSE IF vrec.tag = ValueTag_BegCollection
    THEN CollectionInsert(mname.v.inner, ParseCollection(vrec.rest, EmptyMap), map)
    ELSE CollectionInsert(mname.v.inner,
                          WithRest(IppValue_parse(vrec.tag, vrec.value), vrec.rest), map)

\* the member's value r is stored under key and the submode goes on
CollectionInsert(key, r, map) ==
    IF r.res # "Ok" THEN r ELSE ParseCollection(r.rest, MapInsert(map, key, r.v))

NoAttribute == [name |-> <<>>, tag |-> 0, count |-> 0]

\* an attribute gains one more value: the second value turns it into an Array
Promote(old, count, v) ==
    IF count = 1 THEN [kind |-> "Array", list |-> <<old, v>>]
    ELSE [old EXCEPT !.list = Append(@, v)]

\* the group stream: b is the rest of the stream, groups the groups read so far
\* (the last one is the current group), last the most recent attribute of the
\* current group: its name, the tag of its first record and its number of values
RECURSIVE ParseGroups(_, _, _), GroupRecord(_, _, _), GroupValue(_, _, _, _)
ParseGroups(b, groups, last) ==
    IF b = <<>> THEN Err("Truncated")
    ELSE IF b[1] = DelimiterTag_EndOfAttributes
    THEN [res |-> "Ok", groups |-> groups, payload |-> Tail(b)]
    ELSE IF b[1] >= 1 /\ b[1] <= 10
    THEN ParseGroups(Tail(b), Append(groups, IppAttributeGroup_new(b[1])), NoAttribute)
    ELSE IF b[1] < 16 THEN Err("InvalidDelimiterTag")
    ELSE IF b[1] > 79 THEN Err("InvalidTag")
    ELSE IF groups = <<>> THEN Err("InvalidDelimiterTag")
    ELSE GroupRecord(ReadRecord(b), groups, last)

\* rec is the attribute record at the head of the stream
GroupRecord(rec, groups, last) ==
    IF rec.res # "Ok" THEN rec
    ELSE IF rec.tag = ValueTag_BegCollection
    THEN GroupValue(rec, ParseCollection(rec.rest, EmptyMap), groups, last)
    ELSE GroupValue(rec, WithRest(IppValue_parse(rec.tag, rec.value), rec.rest),
                    groups, last)

\* r is the value of record rec: a named record opens an attribute, a record with
\* an empty name continues the most recent one
GroupValue(rec, r, groups, last) ==
    IF r.res # "Ok" THEN r
    ELSE IF rec.name # <<>>
    THEN ParseGroups(r.rest,
             [groups EXCEPT ![Len(groups)].attributes =
                 MapInsert(@, from_utf8_lossy(rec.name), r.v)],
             [name |-> from_utf8_lossy(rec.name), tag |-> rec.tag, count |-> 1])
    ELSE IF last.count = 0 \/ last.tag # rec.tag
    THEN Err("UnexpectedContinuation")
    ELSE ParseGroups(r.rest,
             [groups EXCEPT ![Len(groups)].attributes =
                 MapInsert(@, last.name, Promote(@[last.name], last.count, r.v))],
             [last EXCEPT !.count = @ + 1])

\* IppParser::parse: header, then the group stream, then the payload
ParsedMessage(b, r) ==
    IF r.res # "Ok" THEN r
    ELSE [res |-> "Ok",
          header |-> [major |-> b[1], minor |-> b[2], op |-> get_u16(Drop(b, 2)),
                      request_id |-> get_i32(Drop(b, 4))],
          groups |-> r.groups, payload |-> r.payload]

IppParser_parse(b) ==
    IF Len(b) < 8 THEN Err("Truncated")
    ELSE ParsedMessage(b, ParseGroups(Drop(b, 8), <<>>, NoAttribute))

-----------------------------------------------------------------------------
(* The values the value layer is run on                                    *)

\* longest data of an Other value, longest list of an Array
MaxDataLen == 2
MaxArrayLen == 2

\* the bytes Other data is made of
DataBytes == {0, 102, 255}

RECURSIVE SeqsUpTo(_, _)
SeqsUpTo(S, n) ==
    IF n = 0 THEN {<<>>}
    ELSE LET shorter == SeqsUpTo(S, n - 1)
         IN  shorter \cup {Append(q, x) : q \in {r \in shorter : Len(r) = n - 1}, x \in S}

I32Values == {0, 1, -1, 1234, 572662306, I32_MAX, I32_MIN}

\* IppTextValue values: those IppTextValue::new builds, and those the From impls
\* build from a BoundedString<255> or BoundedString<1023> holding a shorter string
TextValues ==
    { [tier |-> "Short", s |-> <<>>], [tier |-> "Short", s |-> <<97, 98>>],
      [tier |-> "Short", s |-> <<195, 169>>], [tier |-> "Short", s |-> Rep(97, 127)],
      [tier |-> "Medium", s |-> Rep(97, 128)], [tier |-> "Medium", s |-> Rep(97, 255)],
      [tier |-> "Long", s |-> Rep(97, 256)], [tier |-> "Long", s |-> Rep(97, 1023)],
      [tier |-> "Medium", s |-> <<97, 98>>], [tier |-> "Long", s |-> <<97, 98>>],
      [tier |-> "Long", s |-> Rep(97, 128)] }

\* the strings of a BoundedString<MAX> variant
BoundedValues(MAX) == { <<>>, <<97, 98>>, <<226, 130, 172>>, Rep(97, MAX) }

DateTimeValues ==
    { [kind |-> "DateTime", year |-> 2020, month |-> 2, day |-> 13, hour |-> 12,
       minutes |-> 34, seconds |-> 22, deci_seconds |-> 1, utc_dir |-> d,
       utc_hours |-> 1, utc_mins |-> 30] : d \in {43, 45, 99, 233, 8364} }
    \cup
    { [kind |-> "DateTime", year |-> 65535, month |-> 255, day |-> 255, hour |-> 255,
       minutes |-> 255, seconds |-> 255, deci_seconds |-> 255, utc_dir |-> 255,
       utc_hours |-> 255, utc_mins |-> 255] }

OtherTags ==
    { 0, 123, 255, ValueTag_Unsupported, ValueTag_Unknown, ValueTag_NoValue,
      ValueTag_Integer, ValueTag_Boolean, ValueTag_Keyword, ValueTag_BegCollection,
      ValueTag_EndCollection, ValueTag_TextWithLanguage }

\* every variant but Array and Collection
ScalarValues ==
    { [kind |-> k, i |-> i] : k \in {"Integer", "Enum"}, i \in I32Values }
    \cup { [kind |-> "Boolean", b |-> b] : b \in BOOLEAN }
    \cup { [kind |-> "RangeOfInteger", min |-> r[1], max |-> r[2]] :
             r \in { <<-12, 45>>, <<5, 1>>, <<I32_MIN, I32_MAX>> } }
    \cup { [kind |-> k, text |-> t] : k \in TextKinds, t \in TextValues }
    \cup UNION { { [kind |-> k, s |-> x] : x \in BoundedValues(StringKindMax[k]) } :
                 k \in StringKinds }
    \cup { [kind |-> "TextWithLanguage", language |-> l, text |-> t] :
             l \in { <<>>, <<101, 110>>, Rep(97, IppLanguageMax) },
             t \in { [tier |-> "Short", s |-> <<97, 98>>],
                     [tier |-> "Medium", s |-> <<97, 98>>],
                     [tier |-> "Long", s |-> Rep(97, 1023)] } }
    \cup { [kind |-> "NameWithLanguage", language |-> l, name |-> n] :
             l \in { <<>>, <<101, 110>>, Rep(97, IppLanguageMax) },
             n \in { <<>>, <<97, 98>>, Rep(97, IppNameMax) } }
    \cup DateTimeValues
    \cup { [kind |-> "Resolution", cross_feed |-> r[1], feed |-> r[2], units |-> r[3]] :
             r \in { <<800, 600, 2>>, <<300, 300, 3>>, <<-1, 0, -128>>, <<1, 1, 127>> } }
    \cup { [kind |-> "NoValue"] }
    \cup { [kind |-> "Other", tag |-> t, data |-> d] :
             t \in OtherTags, d \in SeqsUpTo(DataBytes, MaxDataLen) }

-----------------------------------------------------------------------------
(* Value layer: tests::value_check run on one value                        *)

NoMessage == [h |-> [major |-> 0, minor |-> 0, op |-> 0, request_id |-> 0],
              payload |-> <<>>]

\* no call has been made on the list
NoCall == [op |-> "none"]

\* a layer that is not run
IdleValue ==
    /\ val = [kind |-> "NoValue"] /\ vbytes = <<>> /\ vres = NoResult /\ vpc = "idle"
    /\ vagain = <<>>
IdleAttr ==
    /\ theAttr = [name |-> <<>>, value |-> [kind |-> "NoValue"]]
    /\ abytes = <<>> /\ ares = NoResult /\ apc = "idle"
IdleList ==
    /\ attrs = <<>> /\ nops = 0 /\ msg = NoMessage /\ wire = <<>>
    /\ lres = NoResult /\ lpc = "idle"
    /\ call = NoCall /\ latest = <<>>
IdleString ==
    bsMax = 0 /\ bsIn = <<>> /\ bsRes = NoResult /\ bpc = "idle"
IdleIter ==
    itValue = [kind |-> "NoValue"] /\ itIndex = 0 /\ itOut = <<>>
IdleParse ==
    ptag = 0 /\ pdata = <<>> /\ pres = NoResult /\ ppc = "idle"
IdleStream ==
    stream = <<>> /\ sres = NoResult /\ spc = "idle"
IdleColl ==
    inserted = <<>> /\ coll = <<>> /\ cbytes = <<>> /\ cpc = "idle"

InitValue ==
    /\ val \in ScalarValues
    /\ vbytes = <<>>
    /\ vres = NoResult
    /\ vpc = "built"
    /\ vagain = <<>>
    /\ IdleAttr /\ IdleList /\ IdleString /\ IdleIter /\ IdleParse /\ IdleStream /\ IdleColl

\* let mut b = value.to_bytes();
ValueEncode ==
    /\ vpc = "built"
    /\ vbytes' = IppValue_to_bytes(val)
    /\ vpc' = "encoded"
    /\ UNCHANGED <<val, vres, vagain, varsAttr, varsList, varsString, varsIter, varsParse, varsStream, varsColl>>

\* b.advance(2); IppValue::parse(value.to_tag(), b)
ValueDecode ==
    /\ vpc = "encoded"
    /\ vres' = IppValue_parse(to_tag(val), Drop(vbytes, 2))
    /\ vpc' = "parsed"
    /\ UNCHANGED <<val, vbytes, vagain, varsAttr, varsList, varsString, varsIter, varsParse, varsStream, varsColl>>

\* the names the parsed value is given when it is made an attribute again
ReencodeNames == { <<>>, <<108, 105, 115, 116>> }

\* IppAttribute::new(name, parsed).to_bytes() on the value parse returned
ValueReencode ==
    /\ vpc = "parsed" /\ vres.res = "Ok"
    /\ \E name \in ReencodeNames :
          vagain' = IppAttribute_to_bytes([name |-> name, value |-> vres.v])
    /\ vpc' = "reencoded"
    /\ UNCHANGED <<val, vbytes, vres, varsAttr, varsList, varsString, varsIter, varsParse, varsStream, varsColl>>

NextValue == ValueEncode \/ ValueDecode \/ ValueReencode

SpecValue == InitValue /\ [][NextValue]_vars

-----------------------------------------------------------------------------
(* Attribute layer: tests::test_array / tests::test_collection run on one  *)
(* attribute                                                               *)

Integer(i) == [kind |-> "Integer", i |-> i]
Keyword(x) == [kind |-> "Keyword", s |-> x]
Array(l) == [kind |-> "Array", list |-> l]
Collection(m) == [kind |-> "Collection", map |-> m]

NAME_LIST == <<108, 105, 115, 116>>
NAME_COLL == <<99, 111, 108, 108>>
MEMBER_A == <<97>>
MEMBER_ABCD == <<97, 98, 99, 100>>

\* values that are neither Array nor Collection
AttrScalars ==
    { Integer(286331153), Integer(572662306), [kind |-> "Boolean", b |-> TRUE],
      Keyword(<<97, 98>>), [kind |-> "NoValue"],
      [kind |-> "TextWithoutLanguage", text |-> [tier |-> "Short", s |-> <<97, 98>>]],
      [kind |-> "TextWithoutLanguage", text |-> [tier |-> "Medium", s |-> <<97, 98>>]],
      [kind |-> "Other", tag |-> 123, data |-> <<102>>],
      [kind |-> "Other", tag |-> 40, data |-> <<102>>],
      [kind |-> "Other", tag |-> ValueTag_EndCollection, data |-> <<>>] }

ArrayElements ==
    { Integer(286331153), Integer(572662306), [kind |-> "Boolean", b |-> TRUE],
      Keyword(<<97, 98>>) }

InnerCollection == Collection([k \in {MEMBER_ABCD} |-> Integer(572662306)])

\* values of collection members
MemberValues ==
    { Integer(572662306), Keyword(<<97, 98>>),
      Array(<<Integer(286331153), Integer(572662306)>>), Array(<<>>),
      [kind |-> "Other", tag |-> ValueTag_EndCollection, data |-> <<>>],
      InnerCollection, Collection(EmptyMap) }

AttrValues ==
    AttrScalars
    \cup { Array(l) : l \in SeqsUpTo(ArrayElements, MaxArrayLen) }
    \cup { Array(<<InnerCollection, Collection(EmptyMap)>>),
           Array(<<Array(<<Integer(286331153), Integer(572662306)>>), Integer(1)>>) }
    \cup UNION { { Collection(m) : m \in [ks -> MemberValues] } :
                 ks \in SUBSET {MEMBER_A, MEMBER_ABCD} }

Attributes ==
    { [name |-> NAME_LIST, value |-> v] : v \in AttrValues }
    \cup { [name |-> COPIES, value |-> Integer(1)],
           [name |-> <<>>, value |-> Integer(1)],
           [name |-> <<>>, value |-> InnerCollection] }

\* header [1, 1, 0, 0, 0, 0, 0, 0], the PrinterAttributes delimiter, the
\* attribute, EndOfAttributes
Envelope(b) ==
    <<1, 1, 0, 0, 0, 0, 0, 0>> \o <<DelimiterTag_PrinterAttributes>> \o b
        \o <<DelimiterTag_EndOfAttributes>>

InitAttr ==
    /\ theAttr \in Attributes
    /\ abytes = <<>>
    /\ ares = NoResult
    /\ apc = "built"
    /\ IdleValue /\ IdleList /\ IdleString /\ IdleIter /\ IdleParse /\ IdleStream /\ IdleColl

\* let buf = attr.to_bytes();
AttrEncode ==
    /\ apc = "built"
    /\ abytes' = IppAttribute_to_bytes(theAttr)
    /\ apc' = "encoded"
    /\ UNCHANGED <<theAttr, ares, varsValue, varsList, varsString, varsIter, varsParse, varsStream, varsColl>>

\* IppParser::new(IppReader::new(io::Cursor::new(data))).parse()
AttrDecode ==
    /\ apc = "encoded"
    /\ ares' = IppParser_parse(Envelope(abytes))
    /\ apc' = "parsed"
    /\ UNCHANGED <<theAttr, abytes, varsValue, varsList, varsString, varsIter, varsParse, varsStream, varsColl>>

NextAttr == AttrEncode \/ AttrDecode

SpecAttr == InitAttr /\ [][NextAttr]_vars

-----------------------------------------------------------------------------
(* List layer: an IppAttributes built by add and groups_mut().push, sent   *)
(* in a message and parsed back                                            *)

\* number of add / push calls
MaxOps == 4

ListTags == {DelimiterTag_OperationAttributes, DelimiterTag_JobAttributes}

ListAttributes ==
    { [name |-> ATTRIBUTES_CHARSET, value |-> [kind |-> "Charset", s |-> <<117>>]],
      [name |-> ATTRIBUTES_NATURAL_LANGUAGE,
       value |-> [kind |-> "NaturalLanguage", s |-> <<101, 110>>]],
      [name |-> PRINTER_URI, value |-> [kind |-> "Uri", s |-> <<105>>]],
      [name |-> COPIES, value |-> Integer(1)],
      [name |-> COPIES, value |-> Array(<<Integer(2), Integer(3)>>)] }

Messages ==
    { [h |-> [major |-> 1, minor |-> 1, op |-> 2, request_id |-> 4], payload |-> <<>>],
      [h |-> [major |-> 2, minor |-> 0, op |-> 16386, request_id |-> I32_MAX],
       payload |-> <<3, 1>>] }

\* for every group, an order in which its HashMap may yield its attributes
RECURSIVE MapOrders(_, _)
MapOrders(gs, i) ==
    IF i > Len(gs) THEN {<<>>}
    ELSE { <<o>> \o rest : o \in IterationOrders(DOMAIN gs[i].attributes),
                           rest \in MapOrders(gs, i + 1) }

InitList ==
    /\ attrs = <<>>
    /\ nops = 0
    /\ msg = NoMessage
    /\ wire = <<>>
    /\ lres = NoResult
    /\ lpc = "build"
    /\ call = NoCall
    /\ latest = <<>>
    /\ IdleValue /\ IdleAttr /\ IdleString /\ IdleIter /\ IdleParse /\ IdleStream /\ IdleColl

\* attributes.add(tag, attribute)
ListAdd ==
    /\ lpc = "build" /\ nops < MaxOps
    /\ \E tag \in ListTags, a \in ListAttributes :
          /\ attrs' = IppAttributes_add(attrs, tag, a)
          /\ call' = [op |-> "add", tag |-> tag, attribute |-> a]
          /\ latest' = [k \in DOMAIN latest \cup {<<tag, a.name>>} |->
                           IF k = <<tag, a.name>> THEN a.value ELSE latest[k]]
    /\ nops' = nops + 1
    /\ UNCHANGED <<msg, wire, lres, lpc, varsValue, varsAttr, varsString, varsIter, varsParse, varsStream, varsColl>>

\* attributes.groups_mut().push(IppAttributeGroup::new(tag))
ListPush ==
    /\ lpc = "build" /\ nops < MaxOps
    /\ \E tag \in ListTags :
          /\ attrs' = Append(attrs, IppAttributeGroup_new(tag))
          /\ call' = [op |-> "push", tag |-> tag]
    /\ nops' = nops + 1
    /\ UNCHANGED <<msg, wire, lres, lpc, latest, varsValue, varsAttr, varsString, varsIter, varsParse, varsStream, varsColl>>

\* the message with these attributes is serialized
ListSend ==
    /\ lpc = "build"
    /\ \E m \in Messages, order \in MapOrders(attrs, 1) :
          /\ msg' = m
          /\ wire' = IppRequestResponse_to_bytes(m.h, attrs, order, m.payload)
    /\ lpc' = "sent"
    /\ call' = [op |-> "to_bytes"]
    /\ UNCHANGED <<attrs, nops, lres, latest, varsValue, varsAttr, varsString, varsIter, varsParse, varsStream, varsColl>>

\* the serialized message is parsed
ListParse ==
    /\ lpc = "sent"
    /\ lres' = IppParser_parse(wire)
    /\ lpc' = "parsed"
    /\ call' = [op |-> "parse"]
    /\ UNCHANGED <<attrs, nops, msg, wire, latest, varsValue, varsAttr, varsString, varsIter, varsParse, varsStream, varsColl>>

Next == ListAdd \/ ListPush \/ ListSend \/ ListParse

Spec == InitList /\ [][Next]_vars

-----------------------------------------------------------------------------
(* Tag layer: the list layer with groups of every delimiter tag the model  *)
(* names, EndOfAttributes included                                         *)

MaxTagOps == 3

\* IppAttributeGroup::new and IppAttributes::add take any DelimiterTag
AnyTags ==
    { DelimiterTag_OperationAttributes, DelimiterTag_JobAttributes,
      DelimiterTag_EndOfAttributes, DelimiterTag_PrinterAttributes }

TagAttributes ==
    { [name |-> ATTRIBUTES_CHARSET, value |-> [kind |-> "Charset", s |-> <<117>>]],
      [name |-> COPIES, value |-> Integer(1)] }

\* attributes.add(tag, attribute) with any delimiter tag
TagAdd ==
    /\ lpc = "build" /\ nops < MaxTagOps
    /\ \E tag \in AnyTags, a \in TagAttributes :
          /\ attrs' = IppAttributes_add(attrs, tag, a)
          /\ call' = [op |-> "add", tag |-> tag, attribute |-> a]
    /\ nops' = nops + 1
    /\ UNCHANGED <<msg, wire, lres, lpc, latest, varsValue, varsAttr, varsString, varsIter,
                   varsParse, varsStream, varsColl>>

\* attributes.groups_mut().push(IppAttributeGroup::new(tag)) with any delimiter tag
TagPush ==
    /\ lpc = "build" /\ nops < MaxTagOps
    /\ \E tag \in AnyTags :
          /\ attrs' = Append(attrs, IppAttributeGroup_new(tag))
          /\ call' = [op |-> "push", tag |-> tag]
    /\ nops' = nops + 1
    /\ UNCHANGED <<msg, wire, lres, lpc, latest, varsValue, varsAttr, varsString, varsIter,
                   varsParse, varsStream, varsColl>>

NextTags == TagAdd \/ TagPush \/ ListSend \/ ListParse

SpecTags == InitList /\ [][NextTags]_vars

-----------------------------------------------------------------------------
(* String layer: one conversion into a BoundedString<MAX>                  *)

StringMaxes == {IppCharsetMax, IppShortStringMax, IppKeywordMax, IppStringMax}

StringLengths ==
    {0, 1, 62, 63, 64, 126, 127, 128, 254, 255, 256, 1022, 1023, 1024, 65535, 65536}

InitString ==
    /\ bsMax \in StringMaxes
    /\ bsIn \in { Rep(97, n) : n \in StringLengths } \cup { <<195, 169>> }
    /\ bsRes = NoResult
    /\ bpc = "input"
    /\ IdleValue /\ IdleAttr /\ IdleList /\ IdleIter /\ IdleParse /\ IdleStream /\ IdleColl

\* BoundedString::<MAX>::new(s)
String_new ==
    /\ bpc = "input"
    /\ bsRes' = BoundedString_new(bsMax, bsIn)
    /\ bpc' = "new"
    /\ UNCHANGED <<bsMax, bsIn, varsValue, varsAttr, varsList, varsIter, varsParse, varsStream, varsColl>>

\* s.parse::<BoundedString<MAX>>(): FromStr::from_str
from_str(MAX, s) == BoundedString_new(MAX, s)

\* TryFrom<&str>, TryFrom<String>, TryFrom<Cow<str>>
try_from(MAX, s) == BoundedString_new(MAX, s)

\* TryFrom<Uri>: u.to_string().try_into(); a Uri is held as its string form
try_from_uri(MAX, u) == try_from(MAX, u)

String_from_str ==
    /\ bpc = "input"
    /\ bsRes' = from_str(bsMax, bsIn)
    /\ bpc' = "from_str"
    /\ UNCHANGED <<bsMax, bsIn, varsValue, varsAttr, varsList, varsIter, varsParse, varsStream, varsColl>>

String_try_from ==
    /\ bpc = "input"
    /\ bsRes' = try_from(bsMax, bsIn)
    /\ bpc' = "try_from"
    /\ UNCHANGED <<bsMax, bsIn, varsValue, varsAttr, varsList, varsIter, varsParse, varsStream, varsColl>>

String_try_from_uri ==
    /\ bpc = "input"
    /\ bsRes' = try_from_uri(bsMax, bsIn)
    /\ bpc' = "try_from_uri"
    /\ UNCHANGED <<bsMax, bsIn, varsValue, varsAttr, varsList, varsIter, varsParse, varsStream, varsColl>>

NextString == String_new \/ String_from_str \/ String_try_from \/ String_try_from_uri

SpecString == InitString /\ [][NextString]_vars

-----------------------------------------------------------------------------
(* Iterator layer: (&value).into_iter() and calls of next                  *)

\* number of calls of next
MaxNextCalls == 4

\* into_iter: IppValueIterator { value, index: 0 }
InitIter ==
    /\ itValue \in AttrValues
    /\ itIndex = 0
    /\ itOut = <<>>
    /\ IdleValue /\ IdleAttr /\ IdleList /\ IdleString /\ IdleParse /\ IdleStream /\ IdleColl

\* iterator.next()
IterNext ==
    /\ Len(itOut) < MaxNextCalls
    /\ itIndex' = IppValueIterator_next(itValue, itIndex).index
    /\ itOut' = Append(itOut, IppValueIterator_next(itValue, itIndex).item)
    /\ UNCHANGED <<itValue, varsValue, varsAttr, varsList, varsString, varsParse, varsStream, varsColl>>

NextIter == IterNext

SpecIter == InitIter /\ [][NextIter]_vars

-----------------------------------------------------------------------------
(* Parse layer: IppValue::parse(value_tag, data) called on a tag and a     *)
(* payload that no serializer need have written                            *)

\* the payload sizes of the fixed-size arms of parse: get_i32 reads 4 bytes,
\* get_u8 and get_i8 one, get_u16 two
FixedLayout ==
    (ValueTag_Integer :> 4) @@ (ValueTag_Enum :> 4) @@ (ValueTag_Boolean :> 1)
        @@ (ValueTag_RangeOfInteger :> 8) @@ (ValueTag_DateTime :> 11)
        @@ (ValueTag_Resolution :> 9)

LanguageTags == {ValueTag_TextWithLanguage, ValueTag_NameWithLanguage}

\* the maximum of the type each string arm of parse converts into
StringTagMax ==
    (ValueTag_OctetStringUnspecified :> IppStringMax)
        @@ (ValueTag_TextWithoutLanguage :> IppStringMax)
        @@ (ValueTag_NameWithoutLanguage :> IppNameMax)
        @@ (ValueTag_Keyword :> IppKeywordMax) @@ (ValueTag_Uri :> IppStringMax)
        @@ (ValueTag_UriScheme :> IppStringMax) @@ (ValueTag_Charset :> IppCharsetMax)
        @@ (ValueTag_NaturalLanguage :> IppLanguageMax)
        @@ (ValueTag_MimeMediaType :> IppMimeMediaTypeMax)
        @@ (ValueTag_MemberAttrName :> IppKeywordMax)

MaxInvalidRun == 86

\* payloads of the two-string layout [lang_len][lang][text_len][text], whole
\* and cut at every field
LanguagePayloads ==
    { <<>>, <<0>>, <<0, 0>>, <<0, 0, 0>>, <<0, 0, 0, 0>>, <<0, 2, 101>>, <<0, 2, 101, 110>>,
      <<0, 2, 101, 110, 0>>, <<0, 2, 101, 110, 0, 5, 97>>, <<0, 2, 101, 110, 0, 1, 97>>,
      <<0, 2, 101, 110, 0, 1, 255>>, <<255, 255, 97>> }

\* payloads of the string arms: valid UTF-8, invalid UTF-8, and both up to the
\* maximum of the shortest types
StringPayloads ==
    { <<>>, <<97, 98>>, <<195, 169>>, <<255>>, <<97, 195>>, <<237, 160, 128>>,
      Rep(97, IppLanguageMax), Rep(97, IppLanguageMax - 1) \o <<255>>,
      Rep(97, IppLanguageMax - 3) \o <<226, 130, 172>>, Rep(255, 21),
      Rep(255, MaxInvalidRun - 1), Rep(255, MaxInvalidRun) }

ParseInputs ==
    { <<t, Rep(1, n)>> : t \in DOMAIN FixedLayout, n \in 0..11 }
    \cup { <<t, d>> : t \in LanguageTags, d \in LanguagePayloads }
    \cup { <<t, d>> : t \in DOMAIN StringTagMax, d \in StringPayloads }

InitParse ==
    /\ \E in \in ParseInputs : ptag = in[1] /\ pdata = in[2]
    /\ pres = NoResult
    /\ ppc = "input"
    /\ IdleValue /\ IdleAttr /\ IdleList /\ IdleString /\ IdleIter /\ IdleStream /\ IdleColl

\* IppValue::parse(value_tag, data)
ParseCall ==
    /\ ppc = "input"
    /\ pres' = IppValue_parse(ptag, pdata)
    /\ ppc' = "done"
    /\ UNCHANGED <<ptag, pdata, varsValue, varsAttr, varsList, varsString, varsIter,
                   varsStream, varsColl>>

NextParse == ParseCall

SpecParse == InitParse /\ [][NextParse]_vars

-----------------------------------------------------------------------------
(* Stream layer: IppParser::parse on a byte stream that no serializer need *)
(* have written                                                            *)

MaxItems == 4
MaxCollItems == 4

\* one attribute record [tag][name_len][name][value_len][value]
Record(tag, name, value) == <<tag>> \o LenPrefixed(name) \o LenPrefixed(value)

\* what a group stream is made of: delimiter tags, records with a name, records
\* with an empty name
GroupItems ==
    { <<DelimiterTag_OperationAttributes>>, <<DelimiterTag_JobAttributes>>,
      Record(ValueTag_Integer, <<97>>, <<0, 0, 0, 1>>),
      Record(ValueTag_Keyword, <<98>>, <<107>>),
      Record(ValueTag_Integer, <<>>, <<0, 0, 0, 2>>),
      Record(ValueTag_Keyword, <<>>, <<109>>) }

\* what a collection is made of: its opening record with a name, an opening
\* record with an empty name, a member name, a member value, a closing record
CollItems ==
    { Record(ValueTag_BegCollection, <<99>>, <<>>),
      Record(ValueTag_BegCollection, <<>>, <<>>),
      Record(ValueTag_MemberAttrName, <<>>, <<109>>),
      Record(ValueTag_Integer, <<>>, <<0, 0, 0, 2>>),
      Record(ValueTag_EndCollection, <<>>, <<>>) }

\* the concatenations of at most n items of S
RECURSIVE ItemStreams(_, _)
ItemStreams(S, n) ==
    IF n = 0 THEN {<<>>}
    ELSE ItemStreams(S, n - 1) \cup { q \o x : q \in ItemStreams(S, n - 1), x \in S }

StreamHeader == <<2, 0, 0, 11, 0, 0, 0, 7>>

\* what follows the items: nothing, the end of the attributes, or the end of
\* the attributes and a payload that holds a delimiter tag, a record and 0x03
StreamEnds ==
    { <<>>, <<DelimiterTag_EndOfAttributes>>,
      <<DelimiterTag_EndOfAttributes, DelimiterTag_JobAttributes>>
          \o Record(ValueTag_Integer, <<97>>, <<0, 0, 0, 1>>)
          \o <<DelimiterTag_EndOfAttributes>> }

\* Collections as IppValue::to_bytes lays them out: empty, with members, nested
CollValues ==
    { Collection(EmptyMap),
      Collection(MEMBER_A :> Integer(2)),
      Collection((MEMBER_A :> Integer(1)) @@ (MEMBER_ABCD :> Integer(2))),
      Collection(MEMBER_A :> Collection(EmptyMap)),
      Collection(MEMBER_A :> Collection(MEMBER_A :> Integer(2))) }

\* the message that carries the attribute "coll" with value c
CollStream(c) == Envelope(IppAttribute_to_bytes([name |-> NAME_COLL, value |-> c]))

\* the first n bytes of that message
TruncatedStreams(c) == { Take(CollStream(c), n) : n \in 0..Len(CollStream(c)) }

Streams ==
    { StreamHeader \o q \o e : q \in ItemStreams(GroupItems, MaxItems), e \in StreamEnds }
    \cup { StreamHeader \o <<DelimiterTag_PrinterAttributes>> \o q \o e :
             q \in ItemStreams(CollItems, MaxCollItems),
             e \in {<<>>, <<DelimiterTag_EndOfAttributes>>} }
    \cup UNION { TruncatedStreams(c) : c \in CollValues }

InitStream ==
    /\ stream \in Streams
    /\ sres = NoResult
    /\ spc = "input"
    /\ IdleValue /\ IdleAttr /\ IdleList /\ IdleString /\ IdleIter /\ IdleParse
    /\ IdleColl

\* IppParser::new(IppReader::new(io::Cursor::new(stream))).parse()
StreamParse ==
    /\ spc = "input"
    /\ sres' = IppParser_parse(stream)
    /\ spc' = "parsed"
    /\ UNCHANGED <<stream, varsValue, varsAttr, varsList, varsString, varsIter, varsParse,
                   varsColl>>

NextStream == StreamParse

SpecStream == InitStream /\ [][NextStream]_vars

-----------------------------------------------------------------------------
(* Collection layer: a Collection is built member by member, or read from  *)
(* the record stream another sender wrote, and serialized                  *)

MaxMembers == 3

\* the member names and member values the layer inserts
MemberNames == { <<98>>, <<97>>, <<97, 98>> }
MemberInts == { Integer(1), Integer(2) }

\* BTreeMap::insert(key, value)
BTreeMap_insert(map, key, value) ==
    [x \in DOMAIN map \cup {key} |-> IF x = key THEN value ELSE map[x]]

\* the sequences of at most n members <<name, value>>
RECURSIVE MemberSeqs(_)
MemberSeqs(n) ==
    IF n = 0 THEN {<<>>}
    ELSE MemberSeqs(n - 1)
            \cup { Append(ms, <<k, v>>) :
                     ms \in { q \in MemberSeqs(n - 1) : Len(q) = n - 1 },
                     k \in MemberNames, v \in MemberInts }

\* the value bytes of a collection on the wire whose members come in the order
\* of ms: 00 00, per member a MemberAttrName record and a value record, then the
\* EndCollection record
RECURSIVE WireMembers(_)
WireMembers(ms) ==
    IF ms = <<>> THEN <<>>
    ELSE <<ValueTag_MemberAttrName, 0, 0>> \o LenPrefixed(Head(ms)[1])
            \o <<ValueTag_Integer, 0, 0>> \o put_u16(4) \o put_i32(Head(ms)[2].i)
            \o WireMembers(Tail(ms))

WireCollection(ms) ==
    <<0, 0>> \o WireMembers(ms) \o <<ValueTag_EndCollection, 0, 0, 0, 0>>

\* BTreeMap::new(), or the bytes received for a collection; inserted starts as
\* the member names in the order the wire lists them
InitColl ==
    /\ \/ cpc = "build" /\ inserted = <<>> /\ cbytes = <<>>
       \/ /\ cpc = "wire"
          /\ \E ms \in MemberSeqs(MaxMembers) :
                /\ cbytes = WireCollection(ms)
                /\ inserted = [i \in DOMAIN ms |-> ms[i][1]]
    /\ coll = EmptyMap
    /\ IdleValue /\ IdleAttr /\ IdleList /\ IdleString /\ IdleIter /\ IdleParse
    /\ IdleStream

\* the Collection the parser returns for attribute "coll" with these value bytes
\* in a group envelope
ParsedCollection(bytes) ==
    IppParser_parse(Envelope(<<ValueTag_BegCollection>> \o LenPrefixed(NAME_COLL) \o bytes))

\* IppParser::parse on the received bytes
Coll_parse ==
    /\ cpc = "wire"
    /\ ParsedCollection(cbytes).res = "Ok"
    /\ coll' = ParsedCollection(cbytes).groups[1].attributes[NAME_COLL].map
    /\ cpc' = "build"
    /\ UNCHANGED <<inserted, cbytes, varsValue, varsAttr, varsList, varsString, varsIter,
                   varsParse, varsStream>>

\* map.insert(name, value)
Coll_insert ==
    /\ cpc = "build" /\ Len(inserted) < MaxMembers
    /\ \E k \in MemberNames, v \in MemberInts :
          /\ coll' = BTreeMap_insert(coll, k, v)
          /\ inserted' = Append(inserted, k)
    /\ UNCHANGED <<cbytes, cpc, varsValue, varsAttr, varsList, varsString, varsIter,
                   varsParse, varsStream>>

\* IppValue::Collection(map).to_bytes()
Coll_to_bytes ==
    /\ cpc = "build"
    /\ cbytes' = IppValue_to_bytes(Collection(coll))
    /\ cpc' = "encoded"
    /\ UNCHANGED <<inserted, coll, varsValue, varsAttr, varsList, varsString, varsIter,
                   varsParse, varsStream>>

NextColl == Coll_parse \/ Coll_insert \/ Coll_to_bytes

SpecColl == InitColl /\ [][NextColl]_vars

-----------------------------------------------------------------------------
(* The three serializers together: a value, an attribute or a list is      *)
(* built and serialized                                                    *)

InitEncode == InitValue \/ InitAttr \/ InitList

NextEncode == NextValue \/ NextAttr \/ Next

SpecEncode == InitEncode /\ [][NextEncode]_vars

-----------------------------------------------------------------------------
(* Length layer: IppAttribute::new(name, value).to_bytes() on names and    *)
(* Other data whose byte count does not fit in a u16                       *)

\* IppAttribute::new takes any S: AsRef<str> and keeps it as a String, and the
\* data of IppValue::Other is a Bytes: neither has a maximum length
LengthAttributes ==
    { [name |-> COPIES, value |-> v] : v \in ScalarValues }
    \cup { [name |-> Rep(97, n), value |-> Integer(1)] : n \in {1023, Pow2_16 - 1, Pow2_16} }
    \cup { [name |-> COPIES, value |-> [kind |-> "Other", tag |-> 123, data |-> Rep(102, n)]] :
             n \in {Pow2_16 - 1, Pow2_16} }

InitLength ==
    /\ theAttr \in LengthAttributes
    /\ abytes = <<>>
    /\ ares = NoResult
    /\ apc = "built"
    /\ IdleValue /\ IdleList /\ IdleString /\ IdleIter /\ IdleParse /\ IdleStream /\ IdleColl

NextLength == AttrEncode

SpecLength == InitLength /\ [][NextLength]_vars

-----------------------------------------------------------------------------
(* Bounded layer: a BoundedString is built by new, try_from or from_array  *)
(* and then passed through any sequence of expand and shrink; bsMax is the *)
(* MAX of the type of the latest call, bsRes its result                    *)

\* arrays handed to from_array: valid UTF-8 of CAP bytes, and bytes that
\* from_utf8_lossy lengthens
ArrayInputs ==
    { Rep(97, 63), Rep(97, 127), Rep(97, 1023), Rep(97, 61) \o <<195, 169>>,
      Rep(97, 62) \o <<195>>, Rep(255, 63), Rep(97, 255), <<>>, <<97>> }

InitBounded ==
    /\ bsMax \in StringMaxes
    /\ \/ bpc = "input"
          /\ bsIn \in { Rep(97, n) : n \in StringLengths } \cup { <<195, 169>> }
       \/ bpc = "array" /\ bsIn \in ArrayInputs
    /\ bsRes = NoResult
    /\ IdleValue /\ IdleAttr /\ IdleList /\ IdleIter /\ IdleParse /\ IdleStream /\ IdleColl

\* BoundedString::<MAX>::from_array(&value), also From<&[u8; CAP]>
Bounded_from_array ==
    /\ bpc = "array"
    /\ bsRes' = BoundedString_from_array(bsMax, bsIn)
    /\ bpc' = "from_array"
    /\ UNCHANGED <<bsMax, bsIn, varsValue, varsAttr, varsList, varsIter, varsParse, varsStream, varsColl>>

\* s.expand::<MAX2>() on the string of the latest successful call
Bounded_expand ==
    /\ bpc \notin {"input", "array"} /\ bsRes.res = "Ok"
    /\ \E MAX2 \in StringMaxes :
          bsMax' = MAX2 /\ bsRes' = BoundedString_expand(bsRes.v, MAX2)
    /\ bpc' = "expand"
    /\ UNCHANGED <<bsIn, varsValue, varsAttr, varsList, varsIter, varsParse, varsStream, varsColl>>

\* s.shrink::<MAX2>() on the string of the latest successful call
Bounded_shrink ==
    /\ bpc \notin {"input", "array"} /\ bsRes.res = "Ok"
    /\ \E MAX2 \in StringMaxes :
          bsMax' = MAX2 /\ bsRes' = BoundedString_shrink(bsRes.v, MAX2)
    /\ bpc' = "shrink"
    /\ UNCHANGED <<bsIn, varsValue, varsAttr, varsList, varsIter, varsParse, varsStream, varsColl>>

NextBounded ==
    String_new \/ String_try_from \/ Bounded_from_array \/ Bounded_expand \/ Bounded_shrink

SpecBounded == InitBounded /\ [][NextBounded]_vars

-----------------------------------------------------------------------------
(* Text layer: one IppTextValue::new                                       *)

TextLengths ==
    {0, 1, 126, 127, 128, 129, 254, 255, 256, 257, 1022, 1023, 1024, 1025, 2000,
     65535, 65536}

InitText ==
    /\ bsMax = IppStringMax
    /\ bsIn \in { Rep(c, n) : c \in {97, 98, 99}, n \in TextLengths }
    /\ bsRes = NoResult
    /\ bpc = "input"
    /\ IdleValue /\ IdleAttr /\ IdleList /\ IdleIter /\ IdleParse /\ IdleStream /\ IdleColl

\* IppTextValue::new(s)
Text_new ==
    /\ bpc = "input"
    /\ bsRes' = IppTextValue_new(bsIn)
    /\ bpc' = "text_new"
    /\ UNCHANGED <<bsMax, bsIn, varsValue, varsAttr, varsList, varsIter, varsParse, varsStream, varsColl>>

\* TryFrom<&str>, TryFrom<String>, TryFrom<Cow<str>> for IppTextValue
IppTextValue_try_from(s) == IppTextValue_new(s)

Text_try_from ==
    /\ bpc = "input"
    /\ bsRes' = IppTextValue_try_from(bsIn)
    /\ bpc' = "text_try_from"
    /\ UNCHANGED <<bsMax, bsIn, varsValue, varsAttr, varsList, varsIter, varsParse, varsStream, varsColl>>

\* the MAX of the three BoundedString types that convert into IppTextValue
TextSourceMaxes == {IppShortStringMax, 255, IppStringMax}

\* IppTextValue::from(BoundedString::<MAX>::new(s)?)
Text_from ==
    /\ bpc = "input"
    /\ \E MAX \in TextSourceMaxes :
          /\ BoundedString_new(MAX, bsIn).res = "Ok"
          /\ bsMax' = MAX
          /\ bsRes' = Ok(IppTextValue_from(BoundedString_new(MAX, bsIn).v))
    /\ bpc' = "text_from"
    /\ UNCHANGED <<bsIn, varsValue, varsAttr, varsList, varsIter, varsParse, varsStream, varsColl>>

NextText == Text_new \/ Text_try_from \/ Text_from

SpecText == InitText /\ [][NextText]_vars

-----------------------------------------------------------------------------
(* C1: round trip of the values that are neither Array nor Collection      *)

\* the tags IppValue::parse decodes into a variant of their own
DecodedTags ==
    ValueTag_known \ { ValueTag_Unsupported, ValueTag_Unknown, ValueTag_BegCollection,
                       ValueTag_EndCollection }

\* v with its text, if it has one, held in the tier IppTextValue::new picks
Narrowest(v) ==
    IF v.kind \in TextKinds \cup {"TextWithLanguage"}
    THEN [v EXCEPT !.text = IppTextValue_new(v.text.s).v]
    ELSE v

\* C1 as stated: for every value v that is neither Array nor Collection, text
\* held in any tier and Other with any tag included,
\* IppValue::parse(v.to_tag(), v.to_bytes()[2..]) returns Ok(v).
C1_RoundTripAnyValue == vpc = "parsed" => vres = Ok(val)

\* C1 amended: IppValue::parse(v.to_tag(), v.to_bytes()[2..]) returns Ok(v) for
\* every value v that is neither Array nor Collection, provided a text is held in
\* the narrowest tier that fits it, the utc_dir of a DateTime is a char below
\* U+0100 and the tag of an Other is not one parse decodes into another variant;
\* a text held in a wider tier comes back in the narrowest one.
C1_RoundTrip ==
    /\ vpc = "parsed" /\ val.kind = "DateTime" /\ val.utc_dir >= Pow2_8 => vres # Ok(val)
    /\ vpc = "parsed" /\ val.kind = "Other" /\ val.tag \in DecodedTags => vres # Ok(val)
    /\ vpc = "parsed"
          /\ (val.kind = "DateTime" => val.utc_dir < Pow2_8)
          /\ (val.kind = "Other" => val.tag \notin DecodedTags)
       => vres = Ok(Narrowest(val))

\* C1 witness: an Other value with an unassigned tag and two bytes of data has
\* been serialized and parsed back to itself
C1_Witness ==
    /\ vpc = "parsed" /\ val.kind = "Other" /\ val.tag = 255 /\ Len(val.data) = 2
    /\ vres = Ok(val)

-----------------------------------------------------------------------------
(* C10: the length rule of BoundedString::new and of the conversions       *)

\* C10: BoundedString::<MAX>::new(s), from_str, try_from and the conversion from
\* a Uri succeed, keeping s, exactly when the byte length of s is <= MAX, and
\* otherwise return InvalidStringLength{len: byte length of s, max: MAX}.
C10_LengthRule ==
    bpc \in {"new", "from_str", "try_from", "try_from_uri"} =>
        IF Len(bsIn) <= bsMax
        THEN bsRes.res = "Ok" /\ bsRes.v.inner = bsIn
        ELSE /\ bsRes.res = "Err" /\ bsRes.err = "InvalidStringLength"
             /\ bsRes.len = Len(bsIn) /\ bsRes.max = bsMax

\* C10 witness: a 64-byte input to BoundedString<63> was rejected with
\* InvalidStringLength{len: 64, max: 63}
C10_Witness ==
    /\ bpc = "new" /\ bsMax = 63 /\ Len(bsIn) = 64
    /\ bsRes = InvalidStringLength(64, 63)

-----------------------------------------------------------------------------
(* The records of a serialized attribute, read back                        *)

\* the records [tag][name_len][name][value_len][value] that b is made of, in
\* order; the last entry is an Err when b does not end at a record boundary
RECURSIVE ScanRecords(_), ScanFrom(_)
ScanRecords(b) == IF b = <<>> THEN <<>> ELSE ScanFrom(ReadRecord(b))

ScanFrom(r) == IF r.res # "Ok" THEN <<r>> ELSE <<r>> \o ScanRecords(r.rest)

\* number of records with this tag among the first k
TagCount(recs, tag, k) == Cardinality({ i \in 1..k : recs[i].tag = tag })

\* every record is whole, no EndCollection comes without an open BegCollection,
\* and none is left open at the end
Balanced(recs) ==
    /\ \A i \in DOMAIN recs : recs[i].res = "Ok"
    /\ \A k \in DOMAIN recs :
          TagCount(recs, ValueTag_EndCollection, k) <= TagCount(recs, ValueTag_BegCollection, k)
    /\ TagCount(recs, ValueTag_EndCollection, Len(recs))
          = TagCount(recs, ValueTag_BegCollection, Len(recs))

-----------------------------------------------------------------------------
(* C5: the layout of IppAttribute::to_bytes                                *)

\* C5: IppAttribute::to_bytes emits the value tag value.to_tag(), the byte length
\* of the name as a big-endian u16, the name bytes and then exactly the bytes of
\* value.to_bytes(); Attribute("copies", Integer(1)) serializes to
\* 21 00 06 'c' 'o' 'p' 'i' 'e' 's' 00 04 00 00 00 01.
C5_AttributeLayout ==
    apc \in {"encoded", "parsed"} =>
        /\ Len(abytes) >= 3 + Len(theAttr.name)
        /\ abytes[1] = to_tag(theAttr.value)
        /\ abytes[2] * 256 + abytes[3] = Len(theAttr.name)
        /\ SubSeq(abytes, 4, 3 + Len(theAttr.name)) = theAttr.name
        /\ Drop(abytes, 3 + Len(theAttr.name)) = IppValue_to_bytes(theAttr.value)
        /\ (theAttr = [name |-> COPIES, value |-> Integer(1)] =>
               abytes = <<33, 0, 6, 99, 111, 112, 105, 101, 115, 0, 4, 0, 0, 0, 1>>)

\* C5 witness: Attribute("copies", Integer(1)) has been serialized to the bytes
\* of the example
C5_Witness ==
    /\ apc = "encoded" /\ theAttr = [name |-> COPIES, value |-> Integer(1)]
    /\ abytes = <<33, 0, 6, 99, 111, 112, 105, 101, 115, 0, 4, 0, 0, 0, 1>>

-----------------------------------------------------------------------------
(* C6: the records of an Array                                             *)

IsScalar(v) == v.kind \notin {"Array", "Collection"}

\* the records of abytes are one per element of list, all with the tag of the
\* first element, the first with the attribute's name and the others with an
\* empty name, each with the payload of its element
ArrayRecords(recs, name, list) ==
    /\ Len(recs) = Len(list)
    /\ \A i \in DOMAIN recs :
          /\ recs[i].res = "Ok"
          /\ recs[i].tag = to_tag(list[1])
          /\ recs[i].name = (IF i = 1 THEN name ELSE <<>>)
          /\ put_u16(Len(recs[i].value)) \o recs[i].value = IppValue_to_bytes(list[i])

\* C6 as stated: an attribute whose value is Array[v1..vn], n >= 1, serializes to
\* exactly n records with the tag of v1, the first with the attribute name and
\* the payload of v1, record i in 2..n with an empty name and the payload of vi.
C6_ArrayRecordsAnyElement ==
    apc \in {"encoded", "parsed"} /\ theAttr.value.kind = "Array"
        /\ theAttr.value.list # <<>>
    => ArrayRecords(ScanRecords(abytes), theAttr.name, theAttr.value.list)

\* the bytes of elements i..Len(list) of an Array, each after the first behind
\* a record head [tag][00 00]
RECURSIVE ArrayTail(_, _, _)
ArrayTail(list, i, tag) ==
    IF i > Len(list) THEN <<>>
    ELSE <<tag, 0, 0>> \o IppValue_to_bytes(list[i]) \o ArrayTail(list, i + 1, tag)

\* C6 amended: an attribute whose value is Array[v1..vn], n >= 1, serializes to
\* [tag of v1][name length][name] v1.to_bytes() followed, for each i in 2..n in
\* order, by [tag of v1][00 00] vi.to_bytes(); when no element is itself an
\* Array or a Collection these are exactly n records, all with the tag of v1,
\* the first with the attribute name and the others with an empty name.
C6_ArrayRecords ==
    apc \in {"encoded", "parsed"} /\ theAttr.value.kind = "Array"
        /\ theAttr.value.list # <<>>
    => /\ abytes = <<to_tag(theAttr.value.list[1])>> \o put_u16(Len(theAttr.name))
                        \o theAttr.name \o IppValue_to_bytes(theAttr.value.list[1])
                        \o ArrayTail(theAttr.value.list, 2, to_tag(theAttr.value.list[1]))
       /\ (\A i \in DOMAIN theAttr.value.list : IsScalar(theAttr.value.list[i]))
            => ArrayRecords(ScanRecords(abytes), theAttr.name, theAttr.value.list)

\* C6 witness: an Array of two scalars with different tags has been serialized
\* to two records that both carry the tag of the first
C6_Witness ==
    /\ apc = "encoded" /\ theAttr.value.kind = "Array" /\ Len(theAttr.value.list) = 2
    /\ IsScalar(theAttr.value.list[1]) /\ IsScalar(theAttr.value.list[2])
    /\ to_tag(theAttr.value.list[1]) # to_tag(theAttr.value.list[2])
    /\ Len(ScanRecords(abytes)) = 2
    /\ ScanRecords(abytes)[2].tag = to_tag(theAttr.value.list[1])
    /\ ScanRecords(abytes)[2].name = <<>>

-----------------------------------------------------------------------------
(* C7: the records of a Collection                                         *)

\* the member records of a Collection for the member names keys, in that order:
\* [4A][00 00][len][member name] then [member tag][00 00] member.to_bytes()
RECURSIVE MemberRecords(_, _)
MemberRecords(map, keys) ==
    IF keys = <<>> THEN <<>>
    ELSE <<74, 0, 0>> \o put_u16(Len(Head(keys))) \o Head(keys)
            \o <<to_tag(map[Head(keys)]), 0, 0>> \o IppValue_to_bytes(map[Head(keys)])
            \o MemberRecords(map, Tail(keys))

\* the layout of the Collection value of theAttr in abytes
CollectionLayout ==
    Drop(abytes, 3 + Len(theAttr.name))
        = <<0, 0>> \o MemberRecords(theAttr.value.map, BTreeKeys(DOMAIN theAttr.value.map))
            \o <<55, 0, 0, 0, 0>>

\* v brings no collection delimiter of its own and no headless record: no Other
\* with the tag BegCollection or EndCollection, no empty Array, no Array whose
\* elements differ in tag, at any depth
RECURSIVE Framed(_)
Framed(v) ==
    CASE v.kind = "Other" ->
            v.tag \notin {ValueTag_BegCollection, ValueTag_EndCollection}
      [] v.kind = "Array" ->
            /\ v.list # <<>>
            /\ \A i \in DOMAIN v.list :
                  Framed(v.list[i]) /\ to_tag(v.list[i]) = to_tag(v.list[1])
      [] v.kind = "Collection" -> \A k \in DOMAIN v.map : Framed(v.map[k])
      [] OTHER -> TRUE

\* C7 as stated: a Collection serializes to 00 00, then for each member a
\* MemberAttrName record and a value record, then one closing record
\* 37 00 00 00 00, and the EndCollection records of the output balance the
\* BegCollection records at every nesting depth.
C7_CollectionBalancedAnyMember ==
    apc \in {"encoded", "parsed"} /\ theAttr.value.kind = "Collection"
    => CollectionLayout /\ Balanced(ScanRecords(abytes))

\* C7 amended: a Collection serializes to 00 00, then for each member in the
\* order of the member names a MemberAttrName record (4A, empty name, the
\* length-prefixed member name) and a value record (the member's tag, empty
\* name, the member's to_bytes()), then one closing record 37 00 00 00 00; the
\* EndCollection records balance the BegCollection records when no member at
\* any depth is an Other with the tag BegCollection or EndCollection, an empty
\* Array or an Array whose elements differ in tag.
C7_CollectionBalanced ==
    apc \in {"encoded", "parsed"} /\ theAttr.value.kind = "Collection"
    => /\ CollectionLayout
       /\ Framed(theAttr.value) => Balanced(ScanRecords(abytes))

\* C7 witness: a Collection with a nested Collection as a member has been
\* serialized to a balanced record stream with two BegCollection records
C7_Witness ==
    /\ apc = "encoded" /\ theAttr.value.kind = "Collection"
    /\ \E k \in DOMAIN theAttr.value.map : theAttr.value.map[k].kind = "Collection"
    /\ Framed(theAttr.value) /\ Balanced(ScanRecords(abytes))
    /\ TagCount(ScanRecords(abytes), ValueTag_BegCollection, Len(ScanRecords(abytes))) >= 2

-----------------------------------------------------------------------------
(* C3: round trip of an attribute through the parser                       *)

\* the parse returned one group with the envelope's tag that holds exactly
\* theAttr
RoundTripped ==
    /\ ares.res = "Ok"
    /\ Len(ares.groups) = 1
    /\ ares.groups[1].tag = DelimiterTag_PrinterAttributes
    /\ DOMAIN ares.groups[1].attributes = {theAttr.name}
    /\ ares.groups[1].attributes[theAttr.name] = theAttr.value

\* a scalar that one record carries and IppValue::parse gives back: a value tag
\* 0x10..0x4F; a text in its narrowest tier; an Other with a tag parse does not
\* decode and that does not delimit a collection
WireScalar(v) ==
    /\ IsScalar(v)
    /\ to_tag(v) >= 16 /\ to_tag(v) <= 79
    /\ Narrowest(v) = v
    /\ v.kind = "DateTime" => v.utc_dir < Pow2_8
    /\ v.kind = "Other" =>
          v.tag \notin DecodedTags \cup {ValueTag_BegCollection, ValueTag_EndCollection}

\* a scalar or a Collection of members that are
RECURSIVE WireMember(_)
WireMember(v) ==
    IF v.kind = "Collection" THEN \A k \in DOMAIN v.map : WireMember(v.map[k])
    ELSE WireScalar(v)

\* a value the attribute stream gives back: a member value, or an Array of two
\* or more member values with one tag
WireValue(v) ==
    IF v.kind = "Array"
    THEN /\ Len(v.list) >= 2
         /\ \A i \in DOMAIN v.list :
               WireMember(v.list[i]) /\ to_tag(v.list[i]) = to_tag(v.list[1])
    ELSE WireMember(v)

\* C3 as stated: for every attribute a, scalar, Array of any length or
\* Collection, a.to_bytes() after an 8-byte header and a group delimiter and
\* before 0x03 parses to a message whose group holds exactly a.
C3_RoundTripAnyAttribute == apc = "parsed" => RoundTripped

\* C3 amended: a.to_bytes() in that envelope parses to a message whose group
\* holds exactly a when a's name is not empty and a's value is a scalar that
\* IppValue::parse gives back with a tag in 0x10..0x4F, a Collection whose
\* members are such scalars or such Collections, or an Array of two or more
\* such scalars or Collections that all have the same tag.
C3_RoundTrip ==
    apc = "parsed" /\ theAttr.name # <<>> /\ WireValue(theAttr.value) => RoundTripped

\* C3 witness: an attribute whose Collection holds a nested Collection has
\* been serialized and parsed back to itself
C3_Witness ==
    /\ apc = "parsed" /\ theAttr.value.kind = "Collection"
    /\ \E k \in DOMAIN theAttr.value.map : theAttr.value.map[k].kind = "Collection"
    /\ RoundTripped

-----------------------------------------------------------------------------
(* The sections of a serialized attribute list, read back                  *)

\* the sections of the attribute list at the head of b, up to the first 0x03 in
\* delimiter position: for each delimiter byte its tag and the records that
\* follow it; a section with tag 0 stands for bytes that are no section
RECURSIVE ScanSections(_, _), SectionRecord(_, _)
ScanSections(b, acc) ==
    IF b = <<>> THEN Append(acc, [tag |-> 0, recs |-> <<>>])
    ELSE IF b[1] = DelimiterTag_EndOfAttributes THEN acc
    ELSE IF b[1] < 16 THEN ScanSections(Tail(b), Append(acc, [tag |-> b[1], recs |-> <<>>]))
    ELSE SectionRecord(ReadRecord(b), acc)

SectionRecord(r, acc) ==
    IF r.res # "Ok" \/ acc = <<>> THEN Append(acc, [tag |-> 0, recs |-> <<>>])
    ELSE ScanSections(r.rest,
             [acc EXCEPT ![Len(acc)].recs =
                 Append(@, [tag |-> r.tag, name |-> r.name, value |-> r.value])])

\* the bytes of the attribute list in wire: after the 8-byte header, before the
\* payload
ListBytes == SubSeq(wire, 9, Len(wire) - Len(msg.payload))

\* the sections of the attribute list in wire
Sections == ScanSections(Drop(wire, 8), <<>>)

\* the bytes of the records recs, from record i on
RECURSIVE RecordBytes(_, _)
RecordBytes(recs, i) ==
    IF i > Len(recs) THEN <<>>
    ELSE <<recs[i].tag>> \o put_u16(Len(recs[i].name)) \o recs[i].name
            \o put_u16(Len(recs[i].value)) \o recs[i].value \o RecordBytes(recs, i + 1)

\* section sec is the delimiter tag followed by the attributes of the map
\* attributes, each exactly once, in some order
SectionHolds(sec, tag, attributes) ==
    /\ sec.tag = tag
    /\ \E names \in IterationOrders(DOMAIN attributes) :
          RecordBytes(sec.recs, 1) = AttrsBytes(attributes, names)

\* the indices of the groups with / without the tag OperationAttributes
OpIndices == { i \in DOMAIN attrs : attrs[i].tag = DelimiterTag_OperationAttributes }
RestIndices == { i \in DOMAIN attrs : attrs[i].tag # DelimiterTag_OperationAttributes }

-----------------------------------------------------------------------------
(* C4: the header attributes come first                                    *)

\* the position of the record named n in section sec, 0 if there is none
PositionOf(sec, n) ==
    IF \E i \in DOMAIN sec.recs : sec.recs[i].name = n
    THEN CHOOSE i \in DOMAIN sec.recs : sec.recs[i].name = n
    ELSE 0

\* C4: in the bytes of a list whose OperationAttributes group contains
\* attributes-charset and attributes-natural-language, the record of
\* attributes-charset is the first after the 0x01 delimiter,
\* attributes-natural-language is the second, printer-uri when present is the
\* third and every other attribute of the group comes after them, whatever the
\* order the attributes were added in.
C4_HeaderAttributesFirst ==
    lpc \in {"sent", "parsed"} /\ OpIndices # {}
    => LET g == attrs[CHOOSE i \in OpIndices : \A j \in OpIndices : i <= j]
           has_uri == PRINTER_URI \in DOMAIN g.attributes
       IN  {ATTRIBUTES_CHARSET, ATTRIBUTES_NATURAL_LANGUAGE} \subseteq DOMAIN g.attributes
           => /\ wire[9] = DelimiterTag_OperationAttributes
              /\ Sections[1].tag = DelimiterTag_OperationAttributes
              /\ Len(Sections[1].recs) >= Cardinality(DOMAIN g.attributes)
              /\ Sections[1].recs[1].name = ATTRIBUTES_CHARSET
              /\ Sections[1].recs[2].name = ATTRIBUTES_NATURAL_LANGUAGE
              /\ has_uri => Sections[1].recs[3].name = PRINTER_URI
              /\ \A n \in DOMAIN g.attributes \ {ATTRIBUTES_CHARSET,
                                                   ATTRIBUTES_NATURAL_LANGUAGE, PRINTER_URI} :
                    PositionOf(Sections[1], n) > (IF has_uri THEN 3 ELSE 2)

\* C4 witness: a list to which copies was added before the three header
\* attributes has been serialized with copies as the fourth record
C4_Witness ==
    /\ lpc = "sent" /\ Len(attrs) = 1 /\ attrs[1].tag = DelimiterTag_OperationAttributes
    /\ DOMAIN attrs[1].attributes
         = {ATTRIBUTES_CHARSET, ATTRIBUTES_NATURAL_LANGUAGE, PRINTER_URI, COPIES}
    /\ Sections[1].recs[3].name = PRINTER_URI
    /\ Sections[1].recs[4].name = COPIES

-----------------------------------------------------------------------------
(* C8: the empty attribute list                                            *)

ExampleHeader == [major |-> 1, minor |-> 1, op |-> 2, request_id |-> 4]

\* C8 as stated: an attribute list with no groups serializes to the single byte
\* 0x03, and the message with version 1.1, operation 0x0002, request-id 4 and
\* no attributes to the 9 bytes 01 01 00 02 00 00 00 04 03.
C8_EmptyListIsEndByte ==
    lpc \in {"sent", "parsed"} /\ attrs = <<>>
    => /\ ListBytes = <<3>>
       /\ msg = [h |-> ExampleHeader, payload |-> <<>>]
            => wire = <<1, 1, 0, 2, 0, 0, 0, 4, 3>>

\* C8 amended: an attribute list with no groups serializes to the two bytes
\* 01 03, the OperationAttributes delimiter and EndOfAttributes, and the message
\* with version 1.1, operation 0x0002, request-id 4 and no attributes to the 10
\* bytes 01 01 00 02 00 00 00 04 01 03.
C8_EmptyList ==
    lpc \in {"sent", "parsed"} /\ attrs = <<>>
    => /\ ListBytes = <<1, 3>>
       /\ msg = [h |-> ExampleHeader, payload |-> <<>>]
            => wire = <<1, 1, 0, 2, 0, 0, 0, 4, 1, 3>>

\* C8 witness: the message of the example, with no attributes, has been
\* serialized to 10 bytes
C8_Witness ==
    /\ lpc = "sent" /\ attrs = <<>> /\ msg = [h |-> ExampleHeader, payload |-> <<>>]
    /\ wire = <<1, 1, 0, 2, 0, 0, 0, 4, 1, 3>>

-----------------------------------------------------------------------------
(* C9: the groups in the output                                            *)

\* the k-th smallest element of the set of numbers S
RECURSIVE Nth(_, _)
Nth(S, k) ==
    IF k = 1 THEN CHOOSE x \in S : \A y \in S : x <= y
    ELSE Nth(S \ {CHOOSE x \in S : \A y \in S : x <= y}, k - 1)

\* C9 as stated: IppAttributes::to_bytes emits every group exactly once, as its
\* delimiter tag followed by its attributes, in the insertion order of the
\* groups: the sequence of delimiter tags before the final 0x03 is the sequence
\* of the tags of the list's groups.
C9_EveryGroupInOrder ==
    lpc \in {"sent", "parsed"}
    => /\ Len(Sections) = Len(attrs)
       /\ \A i \in DOMAIN attrs :
             SectionHolds(Sections[i], attrs[i].tag, attrs[i].attributes)

\* C9 amended: IppAttributes::to_bytes emits first the OperationAttributes
\* delimiter, always, followed by the attributes of the first
\* OperationAttributes group of the list if there is one, and then every group
\* with another tag exactly once, as its delimiter tag followed by its
\* attributes, in the insertion order of those groups (also when several carry
\* the same tag); a second or later OperationAttributes group is not emitted.
\* The sequence of delimiter tags before the final 0x03 is 0x01 followed by the
\* tags of the groups that are not OperationAttributes.
C9_GroupsInOrder ==
    lpc \in {"sent", "parsed"}
    => /\ Len(Sections) = 1 + Cardinality(RestIndices)
       /\ SectionHolds(Sections[1], DelimiterTag_OperationAttributes,
                       IF OpIndices = {} THEN EmptyMap
                       ELSE attrs[Nth(OpIndices, 1)].attributes)
       /\ \A k \in 1..Cardinality(RestIndices) :
             SectionHolds(Sections[1 + k], attrs[Nth(RestIndices, k)].tag,
                          attrs[Nth(RestIndices, k)].attributes)

\* C9 witness: a list whose groups are JobAttributes, OperationAttributes,
\* JobAttributes in that order has been serialized with the delimiters 01 02 02
C9_Witness ==
    /\ lpc = "sent" /\ Len(attrs) = 3
    /\ attrs[1].tag = DelimiterTag_JobAttributes
    /\ attrs[2].tag = DelimiterTag_OperationAttributes
    /\ attrs[3].tag = DelimiterTag_JobAttributes
    /\ attrs[1].attributes # EmptyMap
    /\ [i \in DOMAIN Sections |-> Sections[i].tag] = <<1, 2, 2>>

-----------------------------------------------------------------------------
(* C2: round trip of a message                                             *)

\* the parse returned the message that was sent
MessageRoundTripped ==
    /\ lres.res = "Ok"
    /\ lres.header = msg.h
    /\ lres.groups = attrs
    /\ lres.payload = msg.payload

\* C2 as stated: for every message, attribute list holding any sequence of
\* groups with or without an OperationAttributes group, parsing the serialized
\* bytes yields the same header fields, the same groups in the same order with
\* the same attributes, and the same payload.
C2_RoundTripAnyMessage == lpc = "parsed" => MessageRoundTripped

\* C2 amended: parsing the serialized bytes yields the same header, groups and
\* payload when the list has exactly one OperationAttributes group, that group
\* is the first of the list, and every attribute has a non-empty name and a
\* value the attribute stream gives back (C3 amended).
C2_RoundTrip ==
    lpc = "parsed"
        /\ OpIndices = {1}
        /\ (\A i \in DOMAIN attrs : \A n \in DOMAIN attrs[i].attributes :
               n # <<>> /\ WireValue(attrs[i].attributes[n]))
    => MessageRoundTripped

\* C2 witness: a message with an OperationAttributes group, a JobAttributes
\* group with an attribute and a payload has been serialized and parsed back
\* to itself
C2_Witness ==
    /\ lpc = "parsed" /\ Len(attrs) >= 2 /\ OpIndices = {1}
    /\ attrs[1].attributes # EmptyMap /\ attrs[2].attributes # EmptyMap
    /\ msg.payload # <<>>
    /\ MessageRoundTripped

-----------------------------------------------------------------------------
(* C11: the bound of every BoundedString                                   *)

\* C11: every BoundedString<M> that exists after any sequence of new, try_from,
\* from_array, expand and shrink has a byte length <= M, the MAX of the type it
\* has after the latest call.
C11_LengthWithinMax ==
    bsRes.res = "Ok" => bsRes.v.max = bsMax /\ Len(bsRes.v.inner) <= bsRes.v.max

\* C11 witness: a string of 63 bytes built as a BoundedString<1023> has been
\* shrunk to a BoundedString<63>
C11_Witness ==
    /\ bpc = "shrink" /\ bsRes.res = "Ok" /\ bsRes.v.max = 63
    /\ Len(bsRes.v.inner) = 63 /\ bsRes.v.inner = bsIn

-----------------------------------------------------------------------------
(* C12: the tiers of IppTextValue::new                                     *)

\* C12: IppTextValue::new(s) returns Short for a byte length of 0..=127, Medium
\* for 128..=255, Long for 256..=1023, each holding s unchanged, and
\* InvalidStringLength{len, max: 1023} for a longer s.
C12_TierRule ==
    bpc \in {"text_new", "text_try_from"} =>
        bsRes = IF Len(bsIn) <= 127 THEN [res |-> "Ok", v |-> [tier |-> "Short", s |-> bsIn]]
                ELSE IF Len(bsIn) <= 255
                THEN [res |-> "Ok", v |-> [tier |-> "Medium", s |-> bsIn]]
                ELSE IF Len(bsIn) <= 1023
                THEN [res |-> "Ok", v |-> [tier |-> "Long", s |-> bsIn]]
                ELSE InvalidStringLength(Len(bsIn), 1023)

\* C12 witness: a string of 128 bytes has been made a Medium text
C12_Witness ==
    /\ bpc = "text_new" /\ Len(bsIn) = 128
    /\ bsRes.res = "Ok" /\ bsRes.v.tier = "Medium" /\ bsRes.v.s = bsIn

-----------------------------------------------------------------------------
(* C16: expand and shrink                                                  *)

\* C16: on a BoundedString<MAX> s, s.expand::<MAX2>() with MAX2 >= MAX succeeds
\* and with MAX2 < MAX yields no value (its assertion aborts the call);
\* s.shrink::<MAX2>() succeeds exactly when the byte length of s is <= MAX2 and
\* otherwise returns InvalidStringLength{len, max: MAX2}; every success returns
\* a BoundedString<MAX2> with the content of s.
C16_ExpandShrink ==
    [][ /\ bpc' = "expand" =>
              bsRes' = IF bsMax' >= bsRes.v.max
                       THEN [res |-> "Ok", v |-> [max |-> bsMax', inner |-> bsRes.v.inner]]
                       ELSE [res |-> "Panic"]
        /\ bpc' = "shrink" =>
              bsRes' = IF Len(bsRes.v.inner) <= bsMax'
                       THEN [res |-> "Ok", v |-> [max |-> bsMax', inner |-> bsRes.v.inner]]
                       ELSE InvalidStringLength(Len(bsRes.v.inner), bsMax') ]_vars

\* C16 witness: shrinking a string of 64 bytes to a BoundedString<63> has failed
\* with InvalidStringLength{len: 64, max: 63}
C16_Witness ==
    bpc = "shrink" /\ Len(bsIn) = 64 /\ bsRes = InvalidStringLength(64, 63)

-----------------------------------------------------------------------------
(* C13: one attribute per name, the latest one                             *)

\* C13: after any sequence of add calls every group holds at most one attribute
\* per name (its attributes are a map keyed by name), and the attribute a group
\* holds under a name is the one most recently added with that name and the
\* group's tag.
C13_LatestWins ==
    \A g \in DOMAIN attrs : \A n \in DOMAIN attrs[g].attributes :
        /\ <<attrs[g].tag, n>> \in DOMAIN latest
        /\ attrs[g].attributes[n] = latest[<<attrs[g].tag, n>>]

\* C13 witness: after two calls a group holds copies alone, with the Array of
\* the add just made
C13_Witness ==
    /\ lpc = "build" /\ nops = 2 /\ call.op = "add" /\ Len(attrs) = 1
    /\ call.attribute = [name |-> COPIES, value |-> Array(<<Integer(2), Integer(3)>>)]
    /\ attrs[1].attributes = [n \in {COPIES} |-> Array(<<Integer(2), Integer(3)>>)]

-----------------------------------------------------------------------------
(* C14: the frame of add                                                   *)

\* no two groups of the list have the same delimiter tag
DistinctTags(groups) ==
    \A i, j \in DOMAIN groups : groups[i].tag = groups[j].tag => i = j

\* groups2 is groups with attribute a put into the group at index f and nothing
\* else changed
InsertedAt(groups, groups2, f, a) ==
    /\ Len(groups2) = Len(groups)
    /\ \A i \in DOMAIN groups : i # f => groups2[i] = groups[i]
    /\ groups2[f].tag = groups[f].tag
    /\ DOMAIN groups2[f].attributes = DOMAIN groups[f].attributes \cup {a.name}
    /\ groups2[f].attributes[a.name] = a.value
    /\ \A n \in DOMAIN groups[f].attributes \ {a.name} :
          groups2[f].attributes[n] = groups[f].attributes[n]

\* C14: add(tag, a) appends a new group holding a alone exactly when no group
\* has that tag, and otherwise puts a into the first group with that tag; the
\* number, order, tags and attributes of all other groups are unchanged, and a
\* list without two groups of one tag has none after add either, so that a list
\* built from empty by add alone never holds two groups with the same tag.
C14_AddFrame ==
    [][ call'.op = "add" /\ lpc = "build" =>
          /\ IF \A g \in DOMAIN attrs : attrs[g].tag # call'.tag
             THEN attrs' = Append(attrs, [tag |-> call'.tag,
                                          attributes |-> [n \in {call'.attribute.name} |->
                                                            call'.attribute.value]])
             ELSE InsertedAt(attrs, attrs',
                             CHOOSE f \in DOMAIN attrs :
                                /\ attrs[f].tag = call'.tag
                                /\ \A y \in 1..(f - 1) : attrs[y].tag # call'.tag,
                             call'.attribute)
          /\ DistinctTags(attrs) => DistinctTags(attrs') ]_vars

\* C14 witness: an attribute has been added to a list with two JobAttributes
\* groups and is held by the first of them
C14_Witness ==
    /\ lpc = "build" /\ call.op = "add" /\ call.tag = DelimiterTag_JobAttributes
    /\ Len(attrs) = 2
    /\ attrs[1].tag = DelimiterTag_JobAttributes /\ attrs[2].tag = DelimiterTag_JobAttributes
    /\ attrs[2].attributes = EmptyMap
    /\ call.attribute.name \in DOMAIN attrs[1].attributes

-----------------------------------------------------------------------------
(* C15: serialization does not fail                                        *)

\* C15: for every IppValue, IppAttribute and IppAttributes built through the
\* public constructors, an empty Array, an empty Collection and an empty
\* attribute list included, to_bytes completes: it returns its bytes, without
\* an error and without a panic.
C15_Infallible ==
    /\ vpc \in {"encoded", "parsed"} => IppValue_to_bytes_result(val) = Ok(vbytes)
    /\ apc \in {"encoded", "parsed"} => IppAttribute_to_bytes_result(theAttr) = Ok(abytes)
    /\ lpc \in {"sent", "parsed"} =>
          \A order \in MapOrders(attrs, 1) :
              IppAttributes_to_bytes_result(attrs, order).res = "Ok"
    /\ lpc \in {"sent", "parsed"} =>
          \E order \in MapOrders(attrs, 1) :
              IppAttributes_to_bytes_result(attrs, order) = Ok(ListBytes)

\* C15 witness: an attribute whose value is the empty Array has been serialized
\* to a record head with the tag Unknown and no value bytes
C15_Witness ==
    /\ apc = "encoded" /\ theAttr.value = Array(<<>>)
    /\ abytes = <<ValueTag_Unknown>> \o put_u16(Len(theAttr.name)) \o theAttr.name

-----------------------------------------------------------------------------
(* C17: records with an unrecognized value tag                             *)

\* C17: a record [tag][name][len][payload] whose tag is no recognized value tag
\* parses to Other{tag, data: payload} with the tag byte and the payload bytes
\* unchanged, and an attribute made of that value serializes to the tag byte,
\* the name, the length and the payload of the record again.
C17_UnknownTagIdentity ==
    /\ vpc \in {"parsed", "reencoded"} /\ to_tag(val) \notin ValueTag_known
          /\ get_u16(vbytes) = Len(vbytes) - 2
       => vres = Ok([kind |-> "Other", tag |-> to_tag(val), data |-> Drop(vbytes, 2)])
    /\ vpc = "reencoded" /\ to_tag(val) \notin ValueTag_known
          /\ get_u16(vbytes) = Len(vbytes) - 2
       => /\ vagain[1] = to_tag(val)
          /\ Drop(vagain, 3 + get_u16(Drop(vagain, 1))) = vbytes
          /\ Take(Drop(vagain, 3), get_u16(Drop(vagain, 1))) \in ReencodeNames

\* C17 witness: the record with the unassigned tag 0x7B and the payload FF 00
\* has been parsed to Other and serialized again to the same tag, length and
\* payload
C17_Witness ==
    /\ vpc = "reencoded" /\ to_tag(val) = 123 /\ vbytes = <<0, 2, 255, 0>>
    /\ vres = Ok([kind |-> "Other", tag |-> 123, data |-> <<255, 0>>])
    /\ vagain = <<123, 0, 0, 0, 2, 255, 0>>

-----------------------------------------------------------------------------
(* C18: the items of the iterator                                          *)

\* the items the iteration over v is to yield, in order
ExpectedItems(v) ==
    IF v.kind = "Array" THEN v.list
    ELSE IF v.kind = "Collection"
    THEN [i \in 1..Cardinality(DOMAIN v.map) |-> v.map[BTreeKeys(DOMAIN v.map)[i]]]
    ELSE <<v>>

\* C18: the calls of next on the iterator over a value return, for an Array,
\* each element once in index order, for a Collection each member value once in
\* the order of the member names, for any other value the value itself once,
\* and None in every call after the last item.
C18_IteratorItems ==
    \A i \in DOMAIN itOut :
        itOut[i] = IF i <= Len(ExpectedItems(itValue))
                   THEN Some(ExpectedItems(itValue)[i])
                   ELSE None

\* C18 witness: the iterator over an Array of two elements has returned the
\* two, then None twice
C18_Witness ==
    /\ itValue.kind = "Array" /\ Len(itValue.list) = 2 /\ Len(itOut) = 4
    /\ itOut = <<Some(itValue.list[1]), Some(itValue.list[2]), None, None>>

-----------------------------------------------------------------------------
(* C19: what the output depends on                                         *)

\* the message serialized with the maps yielding their attributes in order
WireFor(order) == IppRequestResponse_to_bytes(msg.h, attrs, order, msg.payload)

\* no emitted group leaves more than one attribute to the order of its map: the
\* first OperationAttributes group holds at most one attribute that is no
\* header attribute, every group with another tag at most one attribute
OneFreeAttribute ==
    \A g \in DOMAIN attrs :
        IF attrs[g].tag = DelimiterTag_OperationAttributes
        THEN g = Nth(OpIndices, 1) =>
                Cardinality({ n \in DOMAIN attrs[g].attributes : ~is_header_attr(n) }) <= 1
        ELSE Cardinality(DOMAIN attrs[g].attributes) <= 1

\* the sections of b and of c carry the same delimiter tags in the same order
\* and, section by section, the same records
SameUpToOrder(b, c) ==
    LET sb == ScanSections(Drop(b, 8), <<>>)
        sc == ScanSections(Drop(c, 8), <<>>)
    IN  /\ Len(b) = Len(c)
        /\ Len(sb) = Len(sc)
        /\ \A i \in DOMAIN sb :
              /\ sb[i].tag = sc[i].tag
              /\ Len(sb[i].recs) = Len(sc[i].recs)
              /\ { sb[i].recs[j] : j \in DOMAIN sb[i].recs }
                    = { sc[i].recs[j] : j \in DOMAIN sc[i].recs }

\* C19 as stated: two lists holding the same groups in the same order with the
\* same named attributes serialize to identical bytes, whatever the order in
\* which the hash maps yield their attributes.
C19_SameBytesAnyMapOrder ==
    lpc \in {"sent", "parsed"} => \A order \in MapOrders(attrs, 1) : WireFor(order) = wire

\* C19 amended: the output is determined by the content of the list and by the
\* order in which each group's hash map yields its attributes. Two lists with
\* the same content serialize to identical bytes when no emitted group leaves
\* more than one attribute to that order (the header attributes of the first
\* OperationAttributes group are written in their fixed order); in every case
\* the two outputs have the same length, the same delimiter tags in the same
\* order and in each section the same attribute records, in some order.
C19_SameBytesUpToMapOrder ==
    lpc \in {"sent", "parsed"} =>
        \A order \in MapOrders(attrs, 1) :
            /\ OneFreeAttribute => WireFor(order) = wire
            /\ SameUpToOrder(WireFor(order), wire)

\* C19 witness: a list whose OperationAttributes group holds two header
\* attributes and copies, a map with six orders, has been serialized, and every
\* order gives the bytes sent
C19_Witness ==
    /\ lpc = "sent" /\ Len(attrs) = 1 /\ OneFreeAttribute
    /\ attrs[1].tag = DelimiterTag_OperationAttributes
    /\ DOMAIN attrs[1].attributes = {ATTRIBUTES_CHARSET, ATTRIBUTES_NATURAL_LANGUAGE, COPIES}
    /\ \A order \in MapOrders(attrs, 1) : WireFor(order) = wire

-----------------------------------------------------------------------------
(* C20: every u16 length field written by serialization equals the number  *)
(* of bytes of the field it prefixes: the name length of                   *)
(* IppAttribute::to_bytes equals the name's byte count, and for every      *)
(* value other than Array and Collection the first two bytes of            *)
(* IppValue::to_bytes equal the count of payload bytes that follow: 4 for  *)
(* Integer and Enum, 1 for Boolean, 8 for RangeOfInteger, 11 for DateTime, *)
(* 9 for Resolution, lang_len + text_len + 4 for the language-tagged       *)
(* variants, the byte length for strings and for Other data of any size.   *)

\* the payload byte count the claim gives for value v
PayloadCount(v) ==
    CASE v.kind \in {"Integer", "Enum"} -> 4
      [] v.kind = "Boolean" -> 1
      [] v.kind = "RangeOfInteger" -> 8
      [] v.kind = "DateTime" -> 11
      [] v.kind = "Resolution" -> 9
      [] v.kind = "TextWithLanguage" -> Len(v.language) + Len(v.text.s) + 4
      [] v.kind = "NameWithLanguage" -> Len(v.language) + Len(v.name) + 4
      [] v.kind \in StringKinds -> Len(v.s)
      [] v.kind \in TextKinds -> Len(v.text.s)
      [] v.kind = "Other" -> Len(v.data)
      [] v.kind = "NoValue" -> 0

\* the bytes written after the tag, the name length and the name
ValueBytesOf(bytes, name) == SubSeq(bytes, 4 + Len(name), Len(bytes))

\* C20: in the bytes of an encoded attribute the name length field is the
\* name's byte count, and the value length field of a value that is neither an
\* Array nor a Collection is both the number of bytes that follow it and the
\* count the claim gives for the variant
C20_LengthFields ==
    (apc = "encoded") =>
        /\ get_u16(SubSeq(abytes, 2, 3)) = Len(theAttr.name)
        /\ theAttr.value.kind \notin {"Array", "Collection"} =>
              /\ get_u16(ValueBytesOf(abytes, theAttr.name))
                     = Len(ValueBytesOf(abytes, theAttr.name)) - 2
              /\ get_u16(ValueBytesOf(abytes, theAttr.name)) = PayloadCount(theAttr.value)

\* C20 within the range of a u16: the fields of every encoded attribute whose
\* name and Other data are shorter than 2^16 bytes are exact
C20_LengthFieldsInRange ==
    (/\ apc = "encoded"
     /\ Len(theAttr.name) < Pow2_16
     /\ theAttr.value.kind = "Other" => Len(theAttr.value.data) < Pow2_16) =>
        /\ get_u16(SubSeq(abytes, 2, 3)) = Len(theAttr.name)
        /\ get_u16(ValueBytesOf(abytes, theAttr.name)) = PayloadCount(theAttr.value)

\* C20: an Other value of 2^16 bytes has been encoded and its length field
\* reads 0
C20_Truncated ==
    /\ apc = "encoded"
    /\ theAttr.value.kind = "Other" /\ Len(theAttr.value.data) = Pow2_16
    /\ get_u16(ValueBytesOf(abytes, theAttr.name)) = 0

-----------------------------------------------------------------------------
(* C21: IppValue::parse called with a fixed-size or multi-field tag        *)
(* (Integer, Enum, Boolean, RangeOfInteger, DateTime, Resolution,          *)
(* TextWithLanguage, NameWithLanguage) and a payload shorter than that     *)
(* tag's layout requires, an inner length field pointing past the end of   *)
(* the payload included, returns an error to the caller: no value is       *)
(* produced and the call does not abort.                                   *)

\* a two-string payload that ends before its layout does
LanguageTooShort(d) ==
    \/ Len(d) < 2
    \/ 2 + get_u16(d) > Len(d)
    \/ Len(d) < 2 + get_u16(d) + 2
    \/ 2 + get_u16(d) + 2 + get_u16(Drop(d, 2 + get_u16(d))) > Len(d)

TooShort(tag, d) ==
    IF tag \in DOMAIN FixedLayout THEN Len(d) < FixedLayout[tag]
    ELSE tag \in LanguageTags /\ LanguageTooShort(d)

\* C21: a finished call of parse on a payload shorter than the layout of its
\* fixed-size or two-string tag has returned Err
C21_ShortPayloadIsError ==
    (ppc = "done" /\ TooShort(ptag, pdata)) => pres.res = "Err"

\* C21 for the payloads that are long enough: a finished call of parse on a
\* fixed-size tag with at least the bytes of its layout has returned Ok
C21_LongEnoughIsOk ==
    (ppc = "done" /\ ptag \in DOMAIN FixedLayout /\ ~TooShort(ptag, pdata)) =>
        pres.res = "Ok"

-----------------------------------------------------------------------------
(* C22: decoding never fails because of invalid UTF-8: for every           *)
(* string-typed tag (OctetString, TextWithoutLanguage, NameWithoutLanguage,*)
(* Keyword, Uri, UriScheme, Charset, NaturalLanguage, MimeMediaType,       *)
(* MemberAttrName) and every payload whose byte length is within that      *)
(* variant's maximum, IppValue::parse succeeds, whether or not the payload *)
(* is valid UTF-8.                                                         *)

\* C22: a finished call of parse on a string tag and a payload no longer than
\* the maximum of the tag's variant has returned Ok
C22_StringPayloadIsOk ==
    (ppc = "done" /\ ptag \in DOMAIN StringTagMax /\ Len(pdata) <= StringTagMax[ptag]) =>
        pres.res = "Ok"

\* C22 for valid UTF-8: a finished call of parse on a string tag and a payload
\* that lossy decoding leaves unchanged has returned Ok exactly when the
\* payload is no longer than the maximum, and Err otherwise
C22_ValidPayloadIsOk ==
    (ppc = "done" /\ ptag \in DOMAIN StringTagMax /\ from_utf8_lossy(pdata) = pdata) =>
        /\ pres.res = (IF Len(pdata) <= StringTagMax[ptag] THEN "Ok" ELSE "Err")
        /\ pres.res # "Panic"

-----------------------------------------------------------------------------
(* C30: BoundedString::<MAX>::from_array (and From<&[u8; CAP]>) applied to *)
(* any byte array of length CAP = MAX, including arrays containing bytes   *)
(* that are not valid UTF-8, returns a BoundedString without panicking.    *)

\* C30: a finished call of from_array on an array of MAX bytes has returned a
\* BoundedString
C30_FromArrayReturns ==
    (bpc = "from_array" /\ Len(bsIn) = bsMax) => bsRes.res = "Ok"

\* C30 for valid UTF-8: a finished call of from_array on an array of MAX bytes
\* that lossy decoding leaves unchanged has returned the array as a
\* BoundedString<MAX>
C30_ValidArrayReturns ==
    (bpc = "from_array" /\ Len(bsIn) = bsMax /\ from_utf8_lossy(bsIn) = bsIn) =>
        bsRes = [res |-> "Ok", v |-> [max |-> bsMax, inner |-> bsIn]]

-----------------------------------------------------------------------------
(* C27: every IppTextValue, however it was constructed (new,               *)
(* TryFrom<&str>/String/Cow, or From<BoundedString<127>>,                  *)
(* From<BoundedString<255>>, From<BoundedString<1023>>), is held in the    *)
(* smallest tier whose bound contains its byte length, so two text values  *)
(* with equal string content are equal.                                    *)

\* the smallest tier whose bound contains a byte length
SmallestTier(len) ==
    IF len <= 127 THEN "Short" ELSE IF len <= 255 THEN "Medium" ELSE "Long"

\* C27: the text value a finished constructor has returned is held in the
\* smallest tier containing its byte length, hence is the value
\* IppTextValue::new returns for its content
C27_SmallestTier ==
    (bpc \in {"text_new", "text_try_from", "text_from"} /\ bsRes.res = "Ok") =>
        /\ bsRes.v.tier = SmallestTier(Len(bsRes.v.s))
        /\ bsRes = IppTextValue_new(bsRes.v.s)

\* C27 for the conversion that cannot widen: a text made from an
\* IppShortString is held in Short, and every text made by From holds the
\* string unchanged
C27_FromKeepsContent ==
    bpc = "text_from" =>
        /\ bsRes.res = "Ok" /\ bsRes.v.s = bsIn
        /\ bsMax = IppShortStringMax => bsRes.v.tier = "Short"

-----------------------------------------------------------------------------
(* C28: the order of the member names of a Collection                      *)

\* the values of the MemberAttrName records among recs, in order
RECURSIVE NamesOf(_)
NamesOf(recs) ==
    IF recs = <<>> THEN <<>>
    ELSE (IF Head(recs).res = "Ok" /\ Head(recs).tag = ValueTag_MemberAttrName
          THEN <<Head(recs).value>> ELSE <<>>) \o NamesOf(Tail(recs))

\* the member names that the value bytes of a collection list, in order
WrittenNames(bytes) == NamesOf(ScanRecords(Drop(bytes, 2)))

\* the names of q come in strictly ascending byte order
Ascending(q) == \A i \in 1..(Len(q) - 1) : LexLess(q[i], q[i + 1])

\* C28 as stated: the order in which member names appear in the serialization
\* of a Collection is the order in which the members were inserted, or appeared
\* on the wire when the collection was parsed, so a collection record stream
\* that is parsed and serialized again lists its members in the same order.
C28_InsertionOrder ==
    cpc = "encoded" => WrittenNames(cbytes) = inserted

\* written lists the names of ins once each, in ascending order, and is ins
\* itself exactly when ins is ascending
NameOrderHolds(written, ins) ==
    /\ Ascending(written)
    /\ { written[i] : i \in DOMAIN written } = { ins[i] : i \in DOMAIN ins }
    /\ (written = ins) <=> Ascending(ins)

\* C28 amended: the serialization of a Collection lists each member name once,
\* in ascending byte order of the names, whatever the order in which the
\* members were inserted or appeared on the wire; it lists them in the order of
\* insertion (or of the wire) exactly when that order is strictly ascending.
C28_NameOrder ==
    cpc = "encoded" => NameOrderHolds(WrittenNames(cbytes), inserted)

\* C28 witness: a collection whose member b came before its member a, by
\* insertion or on the wire, has been serialized with a before b
C28_Witness ==
    /\ cpc = "encoded" /\ inserted = << <<98>>, <<97>> >>
    /\ coll # EmptyMap
    /\ WrittenNames(cbytes) = << <<97>>, <<98>> >>

-----------------------------------------------------------------------------
(* C29: in the output of IppAttributes::to_bytes the EndOfAttributes byte  *)
(* 0x03 occurs in delimiter position exactly once, as the last byte, for   *)
(* every attribute list reachable through the public API (add, groups_mut, *)
(* IppAttributeGroup::new with any DelimiterTag); no group is emitted      *)
(* under the delimiter 0x03.                                               *)

\* the positions at or after i where b holds 0x03 in delimiter position: a byte
\* below 0x10 is a delimiter, any other byte starts an attribute record
RECURSIVE EndPositions(_, _)
EndPositions(b, i) ==
    IF i > Len(b) THEN {}
    ELSE IF b[i] < 16
    THEN (IF b[i] = DelimiterTag_EndOfAttributes THEN {i} ELSE {}) \cup EndPositions(b, i + 1)
    ELSE IF ReadRecord(Drop(b, i - 1)).res # "Ok" THEN {}
    ELSE EndPositions(b, Len(b) - Len(ReadRecord(Drop(b, i - 1)).rest) + 1)

\* C29: the attribute list of a serialized message holds 0x03 in delimiter
\* position once, as its last byte
C29_OneEndOfAttributes ==
    lpc \in {"sent", "parsed"} => EndPositions(ListBytes, 1) = {Len(ListBytes)}

\* C29 for the lists without a group tagged EndOfAttributes: their
\* serialization holds 0x03 in delimiter position once, as its last byte
C29_OneEndWithoutEndGroup ==
    (/\ lpc \in {"sent", "parsed"}
     /\ \A g \in DOMAIN attrs : attrs[g].tag # DelimiterTag_EndOfAttributes) =>
        EndPositions(ListBytes, 1) = {Len(ListBytes)}

-----------------------------------------------------------------------------
(* C26: every Array value that can be built through the public value       *)
(* constructors or produced by the parser has all of its elements sharing  *)
(* one value tag, so that in its serialization each record's tag byte is   *)
(* the tag of the element that record encodes.                             *)

\* the elements of list share one value tag
OneTag(list) == \A i, j \in DOMAIN list : to_tag(list[i]) = to_tag(list[j])

\* every Array in v, at any depth, has elements that share one value tag
RECURSIVE Homogeneous(_)
Homogeneous(v) ==
    CASE v.kind = "Array" ->
            OneTag(v.list) /\ \A i \in DOMAIN v.list : Homogeneous(v.list[i])
      [] v.kind = "Collection" -> \A k \in DOMAIN v.map : Homogeneous(v.map[k])
      [] OTHER -> TRUE

\* record i of recs carries the tag of element i of list
TagsOfElements(recs, list) ==
    /\ Len(recs) = Len(list)
    /\ \A i \in DOMAIN recs : recs[i].res = "Ok" /\ recs[i].tag = to_tag(list[i])

\* C26: the elements of the Array of a serialized attribute share one value
\* tag and, when they are scalars, each record of the serialization carries
\* the tag of its element; every Array the parser has returned has elements
\* that share one value tag
C26_ArraysShareOneTag ==
    /\ (apc \in {"encoded", "parsed"} /\ theAttr.value.kind = "Array") =>
          /\ OneTag(theAttr.value.list)
          /\ (/\ theAttr.value.list # <<>>
              /\ \A i \in DOMAIN theAttr.value.list : IsScalar(theAttr.value.list[i]))
                => TagsOfElements(ScanRecords(abytes), theAttr.value.list)
    /\ (apc = "parsed" /\ ares.res = "Ok") =>
          \A g \in DOMAIN ares.groups : \A n \in DOMAIN ares.groups[g].attributes :
              Homogeneous(ares.groups[g].attributes[n])

\* C26 for the parser alone: every Array in the attributes a parse has returned
\* has elements that share one value tag
C26_ParsedArraysShareOneTag ==
    (apc = "parsed" /\ ares.res = "Ok") =>
        \A g \in DOMAIN ares.groups : \A n \in DOMAIN ares.groups[g].attributes :
            Homogeneous(ares.groups[g].attributes[n])

\* C26 for the Arrays that do share one tag: each record of the serialization
\* of such an Array of scalars carries the tag of its element
C26_OneTagRecords ==
    (/\ apc \in {"encoded", "parsed"} /\ theAttr.value.kind = "Array"
     /\ theAttr.value.list # <<>> /\ OneTag(theAttr.value.list)
     /\ \A i \in DOMAIN theAttr.value.list : IsScalar(theAttr.value.list[i])) =>
        TagsOfElements(ScanRecords(abytes), theAttr.value.list)

-----------------------------------------------------------------------------
(* C23: in the group stream, outside a collection, a record with a         *)
(* zero-length name is appended to the most recent attribute of the        *)
(* current group when its value tag is that attribute's tag, which turns   *)
(* the attribute's value into an Array of its values in stream order; with *)
(* no preceding attribute in the group, or with another tag, the parse     *)
(* fails with UnexpectedContinuation; a record with a non-empty name       *)
(* always starts a new attribute.                                          *)

\* the sections of the attribute list in stream
StreamSections == ScanSections(Drop(stream, 8), <<>>)

CollectionTags == {ValueTag_BegCollection, ValueTag_EndCollection, ValueTag_MemberAttrName}

\* no record of these sections belongs to a collection
OutsideCollections(secs) ==
    \A s \in DOMAIN secs : \A i \in DOMAIN secs[s].recs :
        secs[s].recs[i].tag \notin CollectionTags

\* the records with a non-empty name before record i
NamedBefore(recs, i) == { j \in 1..(i - 1) : recs[j].name # <<>> }

\* the record that opened the attribute record i belongs to: i itself when it
\* has a name, else the nearest record with a name before it, 0 when none
HeadOf(recs, i) ==
    IF recs[i].name # <<>> THEN i
    ELSE IF NamedBefore(recs, i) = {} THEN 0
    ELSE CHOOSE j \in NamedBefore(recs, i) : \A k \in NamedBefore(recs, i) : k <= j

\* record i has an empty name and no attribute to continue
BadContinuation(recs, i) ==
    /\ recs[i].name = <<>>
    /\ \/ HeadOf(recs, i) = 0
       \/ recs[HeadOf(recs, i)].tag # recs[i].tag

\* the number of records of the attribute that record i opens
RunLength(recs, i) == Cardinality({ j \in DOMAIN recs : HeadOf(recs, j) = i })

\* the value of the attribute that record i opens: the value of the record, or
\* the Array of the values of its records in stream order
RunValue(recs, i) ==
    IF RunLength(recs, i) = 1 THEN IppValue_parse(recs[i].tag, recs[i].value).v
    ELSE Array([n \in 1..RunLength(recs, i) |->
                   IppValue_parse(recs[i + n - 1].tag, recs[i + n - 1].value).v])

\* record i is the last record of its section with its name
LastNamed(recs, i) ==
    /\ recs[i].name # <<>>
    /\ \A j \in DOMAIN recs : j > i => recs[j].name # recs[i].name

\* the attributes of group g are those the records recs open, each with the
\* values of its records
GroupHolds(g, recs) ==
    /\ DOMAIN g.attributes = { recs[i].name : i \in NamedBefore(recs, Len(recs) + 1) }
    /\ \A i \in DOMAIN recs :
          LastNamed(recs, i) => g.attributes[recs[i].name] = RunValue(recs, i)

ContinuationHolds(secs, r) ==
    /\ (r = Err("UnexpectedContinuation"))
          <=> (\E s \in DOMAIN secs : \E i \in DOMAIN secs[s].recs :
                  BadContinuation(secs[s].recs, i))
    /\ r.res = "Ok" =>
          /\ Len(r.groups) = Len(secs)
          /\ \A s \in DOMAIN secs : GroupHolds(r.groups[s], secs[s].recs)

\* C23: a parse of a group stream without collections fails with
\* UnexpectedContinuation exactly when some record with an empty name follows no
\* attribute of its group or carries another tag than the attribute before it,
\* and a parse that succeeds yields for every record with a name one attribute
\* whose value is made of that record and the records with an empty name after it
C23_Continuation ==
    (spc = "parsed" /\ Len(stream) >= 8 /\ OutsideCollections(StreamSections)) =>
        ContinuationHolds(StreamSections, sres)

\* a parsed stream in which two records with an empty name followed "a": the
\* attribute is the Array of the three Integers in stream order
C23_Witness ==
    /\ spc = "parsed" /\ sres.res = "Ok"
    /\ Len(sres.groups) = 1
    /\ <<97>> \in DOMAIN sres.groups[1].attributes
    /\ sres.groups[1].attributes[<<97>>] =
           Array(<<Integer(1), Integer(2), Integer(2)>>)

\* a parsed stream in which a Keyword record with an empty name followed the
\* Integer attribute "a"
C23_Mismatch ==
    /\ spc = "parsed" /\ sres = Err("UnexpectedContinuation")
    /\ Len(StreamSections) >= 1
    /\ Len(StreamSections[1].recs) >= 2
    /\ StreamSections[1].recs[1].tag = ValueTag_Integer
    /\ StreamSections[1].recs[2].tag = ValueTag_Keyword

-----------------------------------------------------------------------------
(* C24: collection parsing is balanced: a BegCollection record opens a     *)
(* collection, the records inside it are read as MemberAttrName and value  *)
(* pairs with a nested BegCollection recursing, and each EndCollection     *)
(* record closes the innermost open collection; the parse succeeds only if *)
(* every opened collection has been closed, and a stream that ends while a *)
(* collection is open fails with UnterminatedCollection.                   *)

\* the records of stream after its first delimiter byte
StreamRecords == ScanRecords(Drop(stream, 9))

\* the records among recs that are whole
Whole(recs) == SelectSeq(recs, LAMBDA r : r.res = "Ok")

\* the first record of stream opens a collection attribute
OpensCollection ==
    /\ Len(stream) >= 9
    /\ stream[9] < 16 /\ stream[9] # DelimiterTag_EndOfAttributes
    /\ StreamRecords # <<>>
    /\ StreamRecords[1].res = "Ok"
    /\ StreamRecords[1].tag = ValueTag_BegCollection
    /\ StreamRecords[1].name # <<>>

\* no EndCollection record stands where the value of a member is due
EndInNamePosition(recs) ==
    \A i \in DOMAIN recs :
        (i > 1 /\ recs[i].tag = ValueTag_EndCollection)
            => recs[i - 1].tag # ValueTag_MemberAttrName

\* more collections opened than closed among recs
LeftOpen(recs) ==
    TagCount(recs, ValueTag_EndCollection, Len(recs))
        < TagCount(recs, ValueTag_BegCollection, Len(recs))

\* a success has every collection closed, UnterminatedCollection has one open
BalanceHolds(recs, r) ==
    /\ r.res = "Ok" => Balanced(recs)
    /\ r = Err("UnterminatedCollection") => LeftOpen(recs)

\* the end of the record that opens the attribute "coll" in CollStream(c)
OpenedAt == 9 + 5 + Len(NAME_COLL)

\* the parse of the first n bytes of the message that carries c: the whole
\* message yields c, a message that ends after the opening record and before
\* the last closing record is complete fails with UnterminatedCollection, and
\* a message that lacks only its last byte has the collection closed
TruncationHolds(c, n, r) ==
    /\ n = Len(CollStream(c)) =>
          /\ r.res = "Ok"
          /\ Len(r.groups) = 1
          /\ r.groups[1].attributes = (NAME_COLL :> c)
    /\ (n >= OpenedAt /\ n < Len(CollStream(c)) - 1) => r = Err("UnterminatedCollection")
    /\ n = Len(CollStream(c)) - 1 => r = Err("Truncated")

C24_Nested ==
    /\ spc = "parsed" /\ sres.res = "Ok"
    /\ OpensCollection
    /\ TagCount(Whole(StreamRecords), ValueTag_BegCollection, Len(Whole(StreamRecords))) = 2
    /\ Balanced(Whole(StreamRecords))

-----------------------------------------------------------------------------
(* C25: the parser only moves forward through Header, GroupStream and      *)
(* Payload: it reads the 8-byte header once, then delimiter tags and       *)
(* attribute records up to the first EndOfAttributes in delimiter          *)
(* position, after which no byte is interpreted and all remaining bytes    *)
(* are returned verbatim as the payload; every attribute record is added   *)
(* to the group opened by the most recent delimiter tag.                   *)

\* the position in b of the first 0x03 in delimiter position; b holds one
FirstEnd(b) == CHOOSE i \in EndPositions(b, 1) : \A j \in EndPositions(b, 1) : i <= j

\* the names of the records of a section that have one
SectionNames(recs) ==
    { from_utf8_lossy(recs[i].name) : i \in { j \in DOMAIN recs : recs[j].name # <<>> } }

\* the groups are the sections in stream order, each with the tag of its
\* delimiter byte and the attributes its own records name
GroupsFollowSections(groups, secs) ==
    /\ Len(groups) = Len(secs)
    /\ \A s \in DOMAIN secs :
          /\ groups[s].tag = secs[s].tag
          /\ DOMAIN groups[s].attributes = SectionNames(secs[s].recs)

\* r is the successful parse of a stream with header bytes h and the bytes b
\* after them
ForwardHolds(h, b, r) ==
    /\ IppHeader_to_bytes(r.header) = h
    /\ EndPositions(b, 1) # {}
    /\ r.payload = Drop(b, FirstEnd(b))
    /\ GroupsFollowSections(r.groups, ScanSections(b, <<>>))
    /\ IppParser_parse(h \o Take(b, FirstEnd(b))) = [r EXCEPT !.payload = <<>>]

\* C25: a successful parse returns the header its first 8 bytes hold, one group
\* per delimiter byte before the first 0x03 in delimiter position, in stream
\* order, each with the attributes of the records between its delimiter and the
\* next, and as payload the bytes after that 0x03, which do not change the
\* header and groups returned
C25_Forward ==
    (spc = "parsed" /\ sres.res = "Ok") =>
        ForwardHolds(Take(stream, 8), Drop(stream, 8), sres)

\* a parsed stream with two groups of one attribute each and a payload that
\* holds 0x03 again
C25_Witness ==
    /\ spc = "parsed" /\ sres.res = "Ok"
    /\ Len(sres.groups) = 2
    /\ sres.groups[1].tag = DelimiterTag_OperationAttributes
    /\ DOMAIN sres.groups[1].attributes = {<<97>>}
    /\ sres.groups[2].tag = DelimiterTag_JobAttributes
    /\ DOMAIN sres.groups[2].attributes = {<<98>>}
    /\ \E i \in DOMAIN sres.payload : sres.payload[i] = DelimiterTag_EndOfAttributes

=============================================================================
